---- MODULE Spec2Model ----
(***************************************************************************)
(* Model of the raster post-processing pipeline (src/src/utils/dithering.ts)*)
(* and of the export scheduler (the useVideoExport hook).                   *)
(*                                                                          *)
(* Pixel buffers are the flat RGBA arrays of the source, indexed from 0.    *)
(* Real-valued quantities of the source (the Float32 error buffers, the     *)
(* intensity and resolution arguments) are fixed-point or rational numbers: *)
(* an error value e is held as the integer e * FixOne, intensity and        *)
(* resolution as pairs <<numerator, denominator>>.                          *)
(***************************************************************************)
EXTENDS Integers, Sequences, FiniteSets, TLC

(***************************************************************************)
(* Bounds of the model.                                                     *)
(***************************************************************************)
\* Number of library calls made on one buffer in a behaviour of Spec, of
\* SpecKernel and of SpecIdem.
MaxCalls == 1
\* Number of library calls made on one buffer in a behaviour of SpecSeq.
MaxSeqCalls == 2
\* Number of quantizer lookups in a behaviour of SpecCache.
MaxLookups == 2
\* Number of nested calls of the dithering functions that are followed.
MaxDepth == 4
\* Number of calls of the scaler on one buffer in a behaviour of SpecScaler.
MaxScalerCalls == 1

\* The element of a one-element set.  Only({e(x) : x \in {v}}) is e(v) with
\* v evaluated once, the way a "const x = v" of the source binds x.
Only(S) == CHOOSE r \in S : TRUE

Min(a, b) == IF a < b THEN a ELSE b
Max(a, b) == IF a > b THEN a ELSE b

(***************************************************************************)
(* Quantizer: findNearestColor and its cache.                               *)
(***************************************************************************)
MAX_CACHE_SIZE == 8192

\* Larger than every squared distance between two 8-bit colours.
Infinity == (3 * 255 * 255) + 1

RECURSIVE BitOr(_, _)
\* a | b on non-negative integers.
BitOr(a, b) ==
  IF a = 0 THEN b
  ELSE IF b = 0 THEN a
  ELSE (IF (a % 2 = 1) \/ (b % 2 = 1) THEN 1 ELSE 0) + 2 * BitOr(a \div 2, b \div 2)

\* a << n for a in 0..255 and n <= 16: no bit leaves the 32-bit word.
ShiftLeft(a, n) == a * (2 ^ n)

\* Faulty variant of CacheKey: the green channel is not shifted.
CacheKeyNoGreenShift(r, g, b) ==
  Only({BitOr(rg, b) :
          rg \in {BitOr(ShiftLeft(r, 16), g)}})

\* const key = (r << 16) | (g << 8) | b
CacheKey(r, g, b) ==
  Only({BitOr(rg, b) :
          rg \in {BitOr(ShiftLeft(r, 16), ShiftLeft(g, 8))}})

\* Faulty variant of Dist: only the red channel is compared.
DistRedOnly(r, g, b, p) == (r - p[1]) * (r - p[1])

\* Squared Euclidean distance of (r, g, b) to a palette entry.
Dist(r, g, b, p) ==
  ((r - p[1]) * (r - p[1])) + ((g - p[2]) * (g - p[2])) + ((b - p[3]) * (b - p[3]))

\* Faulty variant of Closer: a tie replaces the entry found so far.
CloserOrEqual(dist, minDist) == dist <= minDist

\* if (dist < minDist)
Closer(dist, minDist) == dist < minDist

RECURSIVE ScanLoop(_, _, _, _, _, _, _)
\* The body of "for (const [pr, pg, pb] of palette)", from entry i on.
ScanLoop(r, g, b, palette, i, minDist, nearest) ==
  IF i > Len(palette) THEN nearest
  ELSE LET dist == Dist(r, g, b, palette[i])
       IN  IF Closer(dist, minDist)
           THEN ScanLoop(r, g, b, palette, i + 1, dist, palette[i])
           ELSE ScanLoop(r, g, b, palette, i + 1, minDist, nearest)

\* The linear scan of findNearestColor (the path of a cache miss).
Scan(r, g, b, palette) == ScanLoop(r, g, b, palette, 1, Infinity, palette[1])

\* colorCache.has(key)
CacheHas(cache, key) == \E i \in 1..Len(cache) : cache[i].key = key

\* colorCache.get(key): the entry stored under key.
CacheGet(cache, key) == cache[CHOOSE i \in 1..Len(cache) : cache[i].key = key]

\* Faulty variant of EvictIfFull: the cache is allowed one entry more.
EvictIfOverFull(cache) ==
  IF Len(cache) > MAX_CACHE_SIZE /\ Len(cache) > 0 THEN Tail(cache) ELSE cache

\* if (colorCache.size >= MAX_CACHE_SIZE) delete the first key of the Map.
EvictIfFull(cache) ==
  IF Len(cache) >= MAX_CACHE_SIZE /\ Len(cache) > 0 THEN Tail(cache) ELSE cache

\* An entry of colorCache: the Map's key and value.  rgb and pal are history
\* fields the Map itself does not hold: the colour the entry was stored for
\* and the palette that was scanned for it.
CacheEntry(key, rgb, val, palette) ==
  [key |-> key, rgb |-> rgb, val |-> val, pal |-> palette]

\* colorCache.set(key, nearest) for a key that is not in the Map.
CacheSet(cache, key, rgb, val, palette) ==
  Append(cache, CacheEntry(key, rgb, val, palette))

\* findNearestColor(r, g, b, palette) on cache: the colour returned, the
\* cache afterwards, and the record of the lookup (rgb: the colour asked for,
\* ret: the colour returned, hit: served from the cache, src and pal: the
\* colour and the palette the value returned was computed for).
FindNearestColor(r, g, b, palette, cache) ==
  Only({IF CacheHas(cache, key)
    THEN Only({[ret |-> e.val, cache |-> cache,
            rec |-> [rgb |-> <<r, g, b>>, ret |-> e.val, hit |-> TRUE,
                     src |-> e.rgb, pal |-> e.pal]] :
          e \in {CacheGet(cache, key)}})
    ELSE Only({[ret |-> nearest,
            cache |-> CacheSet(EvictIfFull(cache), key, <<r, g, b>>, nearest,
                               palette),
            rec |-> [rgb |-> <<r, g, b>>, ret |-> nearest, hit |-> FALSE,
                     src |-> <<r, g, b>>, pal |-> palette]] :
          nearest \in {Scan(r, g, b, palette)}}) :
          key \in {CacheKey(r, g, b)}})

(***************************************************************************)
(* Buffers and arithmetic shared by the dithering functions.                *)
(*                                                                          *)
(* A call works on a record st:                                             *)
(*   data   the Uint8ClampedArray being dithered (0-based)                  *)
(*   buf    the errorBuffer of the running error-diffusion call (0-based)   *)
(*   cache  colorCache                                                      *)
(*   log    history: the findNearestColor lookups made so far               *)
(*   trace  history: the dithering functions entered so far                 *)
(*   ev     history: the accesses to errorBuffer made by the last            *)
(*          error-diffusion body that ran: its allocation, the clearing of  *)
(*          a row, and for every pixel the slot read and the slots written  *)
(***************************************************************************)
\* One unit of the Float32 error values, as an integer: 16^3 * 3 * 7, so that
\* the first division by 16, 32, 42 or 48 of an integer residual is exact.
FixOne == 4096 * 21

\* Division of a fixed-point value, rounded towards zero.
FixDiv(n, d) == IF n >= 0 THEN n \div d ELSE -((-n) \div d)

\* resolution < 1, intensity and resolution being pairs <<num, den>>.
LessThanOne(q) == q[1] < q[2]

One == <<1, 1>>

\* new Float32Array(n) / new Uint8ClampedArray(n): n zeros.
ZeroArray(n) == [i \in 0..(n - 1) |-> 0]

\* Faulty variant of SetRGB: the blue byte is not written.
SetRG(data, idx, c) == [data EXCEPT ![idx] = c[1], ![idx + 1] = c[2]]

\* data[idx], data[idx + 1], data[idx + 2] = c (alpha at idx + 3 untouched).
SetRGB(data, idx, c) ==
  [data EXCEPT ![idx] = c[1], ![idx + 1] = c[2], ![idx + 2] = c[3]]

\* The write wr added to the writes of the last pixel recorded in ev.
Written(ev, wr) == [ev EXCEPT ![Len(ev)].writes = Append(@, wr)]

\* Faulty variant of AddErr: the error is not accumulated.
DropErr(st, rowStart, slot, err, w) == st

\* errorBuffer[rowStart + slot * 3 + c] += err[c] * w for the three
\* channels (EXCEPT leaves the array as it is at an index outside of it, as a
\* typed array does).  The write is recorded with the pixel being processed.
AddErr(st, rowStart, slot, err, w) ==
  [st EXCEPT !.buf = [@ EXCEPT ![rowStart + slot * 3] = @ + err[1] * w,
                               ![rowStart + slot * 3 + 1] = @ + err[2] * w,
                               ![rowStart + slot * 3 + 2] = @ + err[3] * w],
             !.ev = Written(@, [row |-> rowStart, slot |-> slot, w |-> w,
                                nz |-> err # <<0, 0, 0>>])]

\* if (guard) { errorBuffer[...] += err * w }
AddErrWhen(guard, st, rowStart, slot, err, w) ==
  IF guard THEN AddErr(st, rowStart, slot, err, w) ELSE st

\* for (i = from; i < to; i++) errorBuffer[i] = 0
ClearRange(buf, from, to) ==
  [i \in DOMAIN buf |-> IF from <= i /\ i < to THEN 0 ELSE buf[i]]

\* Faulty variant of ClearRow: the row is left as it is.
KeepRow(st, from, to) == st

\* The clearing loop at the start of a row, recorded in ev.
ClearRow(st, from, to) ==
  [st EXCEPT !.buf = ClearRange(@, from, to),
             !.ev = Append(@, [k |-> "clear", from |-> from, to |-> to])]

\* const errorBuffer = new Float32Array(n)
NewErrorBuffer(st, n) ==
  [st EXCEPT !.buf = ZeroArray(n), !.ev = <<[k |-> "new", n |-> n]>>]

\* Faulty variant of Adjusted: the error is added whatever the intensity.
AdjustedAtFullIntensity(v, e, intensity) ==
  Max(0, Min(255 * FixOne, v * FixOne + e))

\* Math.max(0, Math.min(255, data[idx] + errorBuffer[errIdx] * intensity)),
\* in fixed point.
Adjusted(v, e, intensity) ==
  Max(0, Min(255 * FixOne, v * FixOne + FixDiv(e * intensity[1], intensity[2])))

\* r | 0 for a fixed-point r in [0, 255].
ToInt(rFix) == rFix \div FixOne

\* The start of a call: the function entered is added to the trace.
Enter(st, fn, width, height, intensity, resolution) ==
  [st EXCEPT !.trace = Append(@, [fn |-> fn, width |-> width, height |-> height,
                                   intensity |-> intensity,
                                   resolution |-> resolution])]

\* const [pr, pg, pb] = findNearestColor(r, g, b, palette);
\* data[idx] = pr; data[idx + 1] = pg; data[idx + 2] = pb;
QuantizePixel(st, idx, r, g, b, palette) ==
  Only({[st EXCEPT !.data = SetRGB(st.data, idx, q.ret),
                             !.cache = q.cache,
                             !.log = Append(st.log, q.rec)] :
          q \in {FindNearestColor(r, g, b, palette, st.cache)}})

\* The part of the inner loop body the four error-diffusion functions share:
\* add the accumulated error, quantize, write the pixel.  The residual
\* divided by the kernel's divisor is returned with the new state.
DiffuseHead(st, idx, errIdx, palette, intensity, divisor) ==
  Only({Only({[st |-> [s1 EXCEPT !.ev = Append(@, [k |-> "pixel", idx |-> idx,
                                                    errIdx |-> errIdx,
                                                    divisor |-> divisor,
                                                    writes |-> <<>>])],
                 err |-> <<FixDiv(c[1] - s1.data[idx] * FixOne, divisor),
                           FixDiv(c[2] - s1.data[idx + 1] * FixOne, divisor),
                           FixDiv(c[3] - s1.data[idx + 2] * FixOne, divisor)>>] :
          s1 \in {QuantizePixel(st, idx, ToInt(c[1]), ToInt(c[2]), ToInt(c[3]), palette)}}) :
          c \in {<<Adjusted(st.data[idx], st.buf[errIdx], intensity),
         Adjusted(st.data[idx + 1], st.buf[errIdx + 1], intensity),
         Adjusted(st.data[idx + 2], st.buf[errIdx + 2], intensity)>>}})

(***************************************************************************)
(* applyBayerDithering                                                      *)
(***************************************************************************)
bayerMatrix8x8 ==
  << <<0, 32, 8, 40, 2, 34, 10, 42>>,
     <<48, 16, 56, 24, 50, 18, 58, 26>>,
     <<12, 44, 4, 36, 14, 46, 6, 38>>,
     <<60, 28, 52, 20, 62, 30, 54, 22>>,
     <<3, 35, 11, 43, 1, 33, 9, 41>>,
     <<51, 19, 59, 27, 49, 17, 57, 25>>,
     <<15, 47, 7, 39, 13, 45, 5, 37>>,
     <<63, 31, 55, 23, 61, 29, 53, 21>> >>

\* Math.max(0, Math.min(255, v + (m - 32) * (255 * intensity / 64))) | 0
BayerAdjust(v, m, intensity) ==
  LET d == 64 * intensity[2]
      n == v * d + (m - 32) * 255 * intensity[1]
  IN  IF n < 0 THEN 0 ELSE IF n > 255 * d THEN 255 ELSE n \div d

\* One iteration of "for (let i = 0; i < data.length; i += 4)".
BayerPixel(st, i, width, palette, intensity) ==
  LET pixelIndex == i \div 4
      x == pixelIndex % width
      y == pixelIndex \div width
      m == bayerMatrix8x8[(y % 8) + 1][(x % 8) + 1]
  IN  Only({QuantizePixel(st, i, c[1], c[2], c[3], palette) :
          c \in {<<BayerAdjust(st.data[i], m, intensity),
             BayerAdjust(st.data[i + 1], m, intensity),
             BayerAdjust(st.data[i + 2], m, intensity)>>}})

RECURSIVE BayerLoop(_, _, _, _, _)
BayerLoop(st, i, width, palette, intensity) ==
  IF i >= Cardinality(DOMAIN st.data) THEN st
  ELSE Only({BayerLoop(s1, i + 4, width, palette, intensity) :
          s1 \in {BayerPixel(st, i, width, palette, intensity)}})

\* The function's body below its resolution test.
BayerAtFullResolution(st, width, height, palette, intensity) ==
  BayerLoop(st, 0, width, palette, intensity)

(***************************************************************************)
(* applyFloydSteinbergDithering                                             *)
(***************************************************************************)
\* The body of "for (let x = 0; x < width; x++)".
FSPixel(st, x, y, width, height, palette, intensity, currentRow) ==
  LET nextRow == 1 - currentRow
      currentBufStart == currentRow * (width + 2) * 3
      nextBufStart_row == nextRow * (width + 2) * 3
      idx == (y * width + x) * 4
      errIdx == currentBufStart + (x + 1) * 3
  IN  Only({LET e == h.err
            b0 == h.st
            b1 == AddErrWhen(x < width - 1, b0, currentBufStart, x + 2, e, 7)
            b2 == AddErrWhen(y < height - 1, b1, nextBufStart_row, x, e, 3)
            b3 == AddErrWhen(y < height - 1, b2, nextBufStart_row, x + 1, e, 5)
            b4 == AddErrWhen(y < height - 1 /\ x < width - 1, b3,
                             nextBufStart_row, x + 2, e, 1)
        IN  b4 :
          h \in {DiffuseHead(st, idx, errIdx, palette, intensity, 16)}})

RECURSIVE FSRowLoop(_, _, _, _, _, _, _, _)
FSRowLoop(st, x, y, width, height, palette, intensity, currentRow) ==
  IF x >= width THEN st
  ELSE Only({FSRowLoop(s1, x + 1, y, width, height, palette,
                                      intensity, currentRow) :
          s1 \in {FSPixel(st, x, y, width, height, palette, intensity, currentRow)}})

RECURSIVE FSLoop(_, _, _, _, _, _, _)
\* The body of "for (let y = 0; y < height; y++)": the next row's slots are
\* cleared, then the row is processed, then the two rows swap.
FSLoop(st, y, width, height, palette, intensity, currentRow) ==
  IF y >= height THEN st
  ELSE LET nextRow == 1 - currentRow
           nextBufStart == nextRow * (width + 2) * 3
           cleared == ClearRow(st, nextBufStart,
                     nextBufStart + (width + 2) * 3)
       IN  Only({FSLoop(s1, y + 1, width, height, palette, intensity,
                                   nextRow) :
          s1 \in {FSRowLoop(cleared, 0, y, width, height, palette, intensity,
                          currentRow)}})

\* The function's body below its resolution test: the error buffer lives
\* for the duration of the call.
FloydSteinbergAtFullResolution(st, width, height, palette, intensity) ==
  LET s1 == NewErrorBuffer(st, (width + 2) * 3 * 2)
  IN  [FSLoop(s1, 0, width, height, palette, intensity, 0) EXCEPT !.buf = st.buf]

(***************************************************************************)
(* applyJJNDithering                                                        *)
(***************************************************************************)
JJNPixel(st, x, y, width, height, palette, intensity, currentRow) ==
  LET nextRow == (currentRow + 1) % 3
      nextNextRow == (currentRow + 2) % 3
      currentBufStart == currentRow * (width + 6) * 3
      nextBufStart == nextRow * (width + 6) * 3
      nextNextBufStart == nextNextRow * (width + 6) * 3
      idx == (y * width + x) * 4
      errIdx == currentBufStart + (x + 3) * 3
  IN  Only({LET e == h.err
            b0 == h.st
            \* current row
            b1 == AddErrWhen(x < width - 1, b0, currentBufStart, x + 4, e, 7)
            b2 == AddErrWhen(x < width - 2, b1, currentBufStart, x + 5, e, 5)
            \* next row
            n1 == AddErrWhen(y < height - 1 /\ x > 0, b2,
                             nextBufStart, x + 2, e, 3)
            n2 == AddErrWhen(y < height - 1, n1, nextBufStart, x + 3, e, 5)
            n3 == AddErrWhen(y < height - 1 /\ x < width - 1, n2,
                             nextBufStart, x + 4, e, 7)
            n4 == AddErrWhen(y < height - 1 /\ x < width - 2, n3,
                             nextBufStart, x + 5, e, 5)
            n5 == AddErrWhen(y < height - 1 /\ x > 0, n4,
                             nextBufStart, x + 1, e, 3)
            \* the row after the next
            m1 == AddErrWhen(y < height - 2 /\ x > 0, n5,
                             nextNextBufStart, x + 2, e, 1)
            m2 == AddErrWhen(y < height - 2, m1, nextNextBufStart, x + 3, e, 3)
            m3 == AddErrWhen(y < height - 2 /\ x < width - 1, m2,
                             nextNextBufStart, x + 4, e, 5)
            m4 == AddErrWhen(y < height - 2 /\ x < width - 2, m3,
                             nextNextBufStart, x + 5, e, 3)
            m5 == AddErrWhen(y < height - 2 /\ x > 0, m4,
                             nextNextBufStart, x + 1, e, 1)
        IN  m5 :
          h \in {DiffuseHead(st, idx, errIdx, palette, intensity, 48)}})

RECURSIVE JJNRowLoop(_, _, _, _, _, _, _, _)
JJNRowLoop(st, x, y, width, height, palette, intensity, currentRow) ==
  IF x >= width THEN st
  ELSE Only({JJNRowLoop(s1, x + 1, y, width, height, palette,
                                      intensity, currentRow) :
          s1 \in {JJNPixel(st, x, y, width, height, palette, intensity, currentRow)}})

RECURSIVE JJNLoop(_, _, _, _, _, _, _)
\* Both future rows are cleared at the start of every row.
JJNLoop(st, y, width, height, palette, intensity, currentRow) ==
  IF y >= height THEN st
  ELSE LET nextRow == (currentRow + 1) % 3
           nextNextRow == (currentRow + 2) % 3
           c1 == ClearRow(st, nextRow * (width + 6) * 3,
                     (nextRow + 1) * (width + 6) * 3)
           c2 == ClearRow(c1, nextNextRow * (width + 6) * 3,
                     (nextNextRow + 1) * (width + 6) * 3)
       IN  Only({JJNLoop(s1, y + 1, width, height, palette, intensity,
                                    nextRow) :
          s1 \in {JJNRowLoop(c2, 0, y, width, height, palette, intensity,
                           currentRow)}})

\* The function's body below its resolution test: the error buffer lives
\* for the duration of the call.
JJNAtFullResolution(st, width, height, palette, intensity) ==
  LET s1 == NewErrorBuffer(st, (width + 6) * 3 * 3)
  IN  [JJNLoop(s1, 0, width, height, palette, intensity, 0) EXCEPT !.buf = st.buf]

(***************************************************************************)
(* applyStuckiDithering                                                   *)
(***************************************************************************)
StuckiPixel(st, x, y, width, height, palette, intensity, currentRow) ==
  LET nextRow == 1 - currentRow
      currentBufStart == currentRow * (width + 4) * 3
      nextBufStart == nextRow * (width + 4) * 3
      idx == (y * width + x) * 4
      errIdx == currentBufStart + (x + 2) * 3
  IN  Only({LET e == h.err
            b0 == h.st
            \* current row
            b1 == AddErrWhen(x < width - 1, b0, currentBufStart, x + 3, e, 8)
            b2 == AddErrWhen(x < width - 2, b1, currentBufStart, x + 4, e, 4)
            \* next row
            n1 == AddErrWhen(y < height - 1 /\ x > 0, b2,
                             nextBufStart, x + 1, e, 2)
            n2 == AddErrWhen(y < height - 1, n1, nextBufStart, x + 2, e, 4)
            n3 == AddErrWhen(y < height - 1 /\ x < width - 1, n2,
                             nextBufStart, x + 3, e, 8)
            n4 == AddErrWhen(y < height - 1 /\ x < width - 2, n3,
                             nextBufStart, x + 4, e, 4)
            n5 == AddErrWhen(y < height - 1 /\ x < width - 3, n4,
                             nextBufStart, x + 5, e, 2)
        IN  n5 :
          h \in {DiffuseHead(st, idx, errIdx, palette, intensity, 42)}})

RECURSIVE StuckiRowLoop(_, _, _, _, _, _, _, _)
StuckiRowLoop(st, x, y, width, height, palette, intensity, currentRow) ==
  IF x >= width THEN st
  ELSE Only({StuckiRowLoop(s1, x + 1, y, width, height, palette,
                                      intensity, currentRow) :
          s1 \in {StuckiPixel(st, x, y, width, height, palette, intensity, currentRow)}})

RECURSIVE StuckiLoop(_, _, _, _, _, _, _)
StuckiLoop(st, y, width, height, palette, intensity, currentRow) ==
  IF y >= height THEN st
  ELSE LET nextRow == 1 - currentRow
           cleared == ClearRow(st, nextRow * (width + 4) * 3,
                     (nextRow + 1) * (width + 4) * 3)
       IN  Only({StuckiLoop(s1, y + 1, width, height, palette,
                                       intensity, nextRow) :
          s1 \in {StuckiRowLoop(cleared, 0, y, width, height, palette, intensity,
                              currentRow)}})

\* The function's body below its resolution test: the error buffer lives
\* for the duration of the call.
StuckiAtFullResolution(st, width, height, palette, intensity) ==
  LET s1 == NewErrorBuffer(st, (width + 4) * 3 * 2)
  IN  [StuckiLoop(s1, 0, width, height, palette, intensity, 0) EXCEPT !.buf = st.buf]

(***************************************************************************)
(* applySierraDithering                                                   *)
(***************************************************************************)
SierraPixel(st, x, y, width, height, palette, intensity, currentRow) ==
  LET nextRow == 1 - currentRow
      currentBufStart == currentRow * (width + 4) * 3
      nextBufStart == nextRow * (width + 4) * 3
      idx == (y * width + x) * 4
      errIdx == currentBufStart + (x + 2) * 3
  IN  Only({LET e == h.err
            b0 == h.st
            \* current row
            b1 == AddErrWhen(x < width - 1, b0, currentBufStart, x + 3, e, 5)
            b2 == AddErrWhen(x < width - 2, b1, currentBufStart, x + 4, e, 3)
            \* next row
            n1 == AddErrWhen(y < height - 1 /\ x > 0, b2,
                             nextBufStart, x + 1, e, 2)
            n2 == AddErrWhen(y < height - 1, n1, nextBufStart, x + 2, e, 4)
            n3 == AddErrWhen(y < height - 1 /\ x < width - 1, n2,
                             nextBufStart, x + 3, e, 5)
            n4 == AddErrWhen(y < height - 1 /\ x < width - 2, n3,
                             nextBufStart, x + 4, e, 4)
            n5 == AddErrWhen(y < height - 1 /\ x < width - 3, n4,
                             nextBufStart, x + 5, e, 2)
        IN  n5 :
          h \in {DiffuseHead(st, idx, errIdx, palette, intensity, 32)}})

RECURSIVE SierraRowLoop(_, _, _, _, _, _, _, _)
SierraRowLoop(st, x, y, width, height, palette, intensity, currentRow) ==
  IF x >= width THEN st
  ELSE Only({SierraRowLoop(s1, x + 1, y, width, height, palette,
                                      intensity, currentRow) :
          s1 \in {SierraPixel(st, x, y, width, height, palette, intensity, currentRow)}})

RECURSIVE SierraLoop(_, _, _, _, _, _, _)
SierraLoop(st, y, width, height, palette, intensity, currentRow) ==
  IF y >= height THEN st
  ELSE LET nextRow == 1 - currentRow
           cleared == ClearRow(st, nextRow * (width + 4) * 3,
                     (nextRow + 1) * (width + 4) * 3)
       IN  Only({SierraLoop(s1, y + 1, width, height, palette,
                                       intensity, nextRow) :
          s1 \in {SierraRowLoop(cleared, 0, y, width, height, palette, intensity,
                              currentRow)}})

\* The function's body below its resolution test: the error buffer lives
\* for the duration of the call.
SierraAtFullResolution(st, width, height, palette, intensity) ==
  LET s1 == NewErrorBuffer(st, (width + 4) * 3 * 2)
  IN  [SierraLoop(s1, 0, width, height, palette, intensity, 0) EXCEPT !.buf = st.buf]

(***************************************************************************)
(* applyDitheringAtLowerResolution                                          *)
(***************************************************************************)
\* Math.max(2, Math.floor(dimension * resolution))
ScaledDim(dimension, resolution) ==
  Max(2, (dimension * resolution[1]) \div resolution[2])

\* Math.floor(i * scale) with scale = dimension / scaledDimension.
CellStart(i, dimension, scaledDimension) == (i * dimension) \div scaledDimension

\* Math.floor(i / scale) with scale = dimension / scaledDimension.
SourceCell(i, dimension, scaledDimension) == (i * scaledDimension) \div dimension

RECURSIVE SumRow(_, _, _, _, _, _)
\* for (px = x0; px < x1; px++) sum += data[(py * width + px) * 4 + ch]
SumRow(data, width, py, px, x1, ch) ==
  IF px >= x1 THEN 0
  ELSE data[(py * width + px) * 4 + ch] + SumRow(data, width, py, px + 1, x1, ch)

RECURSIVE SumCell(_, _, _, _, _, _, _)
\* for (py = y0; py < y1; py++) for (px = x0; px < x1; px++) ...
SumCell(data, width, x0, x1, py, y1, ch) ==
  IF py >= y1 THEN 0
  ELSE SumRow(data, width, py, x0, x1, ch)
       + SumCell(data, width, x0, x1, py + 1, y1, ch)

\* The value of count after the two loops.
CountCell(x0, x1, y0, y1) == Max(0, x1 - x0) * Max(0, y1 - y0)

\* Storing sum / count into a Uint8ClampedArray: 0 / 0 is NaN and is stored
\* as 0; any other quotient is rounded to the nearest integer, ties to even.
ToUint8Clamped(sum, count) ==
  IF count = 0 THEN 0
  ELSE LET q == sum \div count
           r == sum % count
           v == IF 2 * r < count THEN q
                ELSE IF 2 * r > count THEN q + 1
                ELSE IF q % 2 = 0 THEN q ELSE q + 1
       IN  Max(0, Min(255, v))

\* "Downscale by averaging": the scaled buffer.
Downscale(data, width, height, scaledWidth, scaledHeight) ==
  [i \in 0..(scaledWidth * scaledHeight * 4 - 1) |->
     LET cell == i \div 4
         x == cell % scaledWidth
         y == cell \div scaledWidth
         x0 == CellStart(x, width, scaledWidth)
         y0 == CellStart(y, height, scaledHeight)
         x1 == CellStart(x + 1, width, scaledWidth)
         y1 == CellStart(y + 1, height, scaledHeight)
     IN  Only({ToUint8Clamped(sum, CountCell(x0, x1, y0, y1)) :
          sum \in {SumCell(data, width, x0, x1, y0, y1, i % 4)}})]

\* "Upscale back to original resolution using nearest-neighbor": all four
\* bytes of every pixel are copied from the scaled buffer.
Upscale(data, scaledData, width, height, scaledWidth, scaledHeight) ==
  [i \in DOMAIN data |->
     LET p == i \div 4
         srcX == SourceCell(p % width, width, scaledWidth)
         srcY == SourceCell(p \div width, height, scaledHeight)
     IN  scaledData[(srcY * scaledWidth + srcX) * 4 + (i % 4)]]

\* Faulty variant of ScaledResolution: the callee is given a resolution below 1.
ScaledResolutionHalf == <<1, 2>>

\* The resolution argument of the calls the scaler makes: the literal 1.0.
ScaledResolution == One

RECURSIVE applyDitheringAtLowerResolution(_, _, _, _, _, _, _)

\* apply<type>Dithering(scaledData, scaledWidth, scaledHeight, palette,
\* intensity, 1.0): the callee is entered and makes its test
\* "resolution < 1.0" on the resolution it was given; when the test fails it
\* runs its full-resolution body on the scaled buffer.  Nested calls are
\* followed down to MaxDepth.
DitherScaled(st, scaledWidth, scaledHeight, palette, intensity, type) ==
  LET Entered(fn) == Enter(st, fn, scaledWidth, scaledHeight, intensity,
                           ScaledResolution)
  IN  IF LessThanOne(ScaledResolution) /\ Len(st.trace) + 1 < MaxDepth
      THEN applyDitheringAtLowerResolution(Entered(type), scaledWidth,
                                           scaledHeight, palette, intensity,
                                           ScaledResolution, type)
      ELSE
      CASE type = "bayer" ->
             BayerAtFullResolution(Entered("bayer"), scaledWidth, scaledHeight,
                                   palette, intensity)
        [] type = "floydSteinberg" ->
             FloydSteinbergAtFullResolution(Entered("floydSteinberg"), scaledWidth,
                                            scaledHeight, palette, intensity)
        [] type = "jjn" ->
             JJNAtFullResolution(Entered("jjn"), scaledWidth, scaledHeight,
                                 palette, intensity)
        [] type = "stucki" ->
             StuckiAtFullResolution(Entered("stucki"), scaledWidth, scaledHeight,
                                    palette, intensity)
        [] type = "sierra" ->
             SierraAtFullResolution(Entered("sierra"), scaledWidth, scaledHeight,
                                    palette, intensity)
        [] OTHER -> st

applyDitheringAtLowerResolution(st, width, height, palette, intensity, resolution, type) ==
  LET scaledWidth == ScaledDim(width, resolution)
      scaledHeight == ScaledDim(height, resolution)
  IN  Only({Only({[s1 EXCEPT !.data = Upscale(st.data, s1.data, width,
                                                          height, scaledWidth,
                                                          scaledHeight)] :
          s1 \in {DitherScaled([st EXCEPT !.data = scaledData], scaledWidth,
                               scaledHeight, palette, intensity, type)}}) :
          scaledData \in {Downscale(st.data, width, height, scaledWidth, scaledHeight)}})

(***************************************************************************)
(* The five exported dithering functions: each branches to the scaled path  *)
(* when resolution < 1.0.                                                   *)
(***************************************************************************)
applyBayerDithering(st, width, height, palette, intensity, resolution) ==
  LET s0 == Enter(st, "bayer", width, height, intensity, resolution)
  IN  IF LessThanOne(resolution)
      THEN applyDitheringAtLowerResolution(s0, width, height, palette,
                                           intensity, resolution, "bayer")
      ELSE BayerAtFullResolution(s0, width, height, palette, intensity)

applyFloydSteinbergDithering(st, width, height, palette, intensity, resolution) ==
  LET s0 == Enter(st, "floydSteinberg", width, height, intensity, resolution)
  IN  IF LessThanOne(resolution)
      THEN applyDitheringAtLowerResolution(s0, width, height, palette,
                                           intensity, resolution, "floydSteinberg")
      ELSE FloydSteinbergAtFullResolution(s0, width, height, palette, intensity)

applyJJNDithering(st, width, height, palette, intensity, resolution) ==
  LET s0 == Enter(st, "jjn", width, height, intensity, resolution)
  IN  IF LessThanOne(resolution)
      THEN applyDitheringAtLowerResolution(s0, width, height, palette,
                                           intensity, resolution, "jjn")
      ELSE JJNAtFullResolution(s0, width, height, palette, intensity)

applyStuckiDithering(st, width, height, palette, intensity, resolution) ==
  LET s0 == Enter(st, "stucki", width, height, intensity, resolution)
  IN  IF LessThanOne(resolution)
      THEN applyDitheringAtLowerResolution(s0, width, height, palette,
                                           intensity, resolution, "stucki")
      ELSE StuckiAtFullResolution(s0, width, height, palette, intensity)

applySierraDithering(st, width, height, palette, intensity, resolution) ==
  LET s0 == Enter(st, "sierra", width, height, intensity, resolution)
  IN  IF LessThanOne(resolution)
      THEN applyDitheringAtLowerResolution(s0, width, height, palette,
                                           intensity, resolution, "sierra")
      ELSE SierraAtFullResolution(s0, width, height, palette, intensity)

(***************************************************************************)
(* reduceColorsTopalette                                                    *)
(***************************************************************************)
\* The body of the inner loop for the pixel at byte index idx.
ReducePixel(st, idx, palette) ==
  QuantizePixel(st, idx, st.data[idx], st.data[idx + 1], st.data[idx + 2], palette)

RECURSIVE ReduceChunk(_, _, _, _, _)
\* for (j = 0; j < chunkSize && i + j * 4 < data.length; j++)
ReduceChunk(st, i, j, chunkSize, palette) ==
  IF ~(j < chunkSize /\ i + j * 4 < Cardinality(DOMAIN st.data)) THEN st
  ELSE Only({ReduceChunk(s1, i, j + 1, chunkSize, palette) :
          s1 \in {ReducePixel(st, i + j * 4, palette)}})

RECURSIVE ReduceLoop(_, _, _, _)
\* for (i = 0; i < data.length; i += 4 * chunkSize)
ReduceLoop(st, i, chunkSize, palette) ==
  IF i >= Cardinality(DOMAIN st.data) THEN st
  ELSE Only({ReduceLoop(s1, i + 4 * chunkSize, chunkSize, palette) :
          s1 \in {ReduceChunk(st, i, 0, chunkSize, palette)}})

\* Faulty variant of ClearCache: the cache is kept.
KeepCache(cache) == cache

\* colorCache.clear()
ClearCache(cache) == <<>>

reduceColorsTopalette(st, palette) ==
  LET s0 == [st EXCEPT !.cache = ClearCache(@),
                       !.trace = Append(@, [fn |-> "reduce", width |-> 0,
                                            height |-> 0, intensity |-> One,
                                            resolution |-> One])]
      chunkSize == Min(64, Cardinality(DOMAIN st.data) \div 4)
  IN  ReduceLoop(s0, 0, chunkSize, palette)

(***************************************************************************)
(* State.                                                                   *)
(***************************************************************************)
VARIABLES
  data,        \* the caller's RGBA buffer
  width,       \* its width in pixels
  height,      \* its height in pixels
  colorCache,  \* the module-level Map of findNearestColor
  call,        \* history: the last library call, its arguments and lookups
  ncalls,      \* history: number of calls made so far
  isExporting,     \* useState(false): the committed value
  exportProgress,  \* useState(0): the committed value, a fraction <<n, d>>
  abortRef,        \* useRef(false).current
  rendered,        \* the isExporting the current exportVideo callback closed over
  now,             \* Date.now(), in ms
  runs             \* the calls of exportVideo that got past the guard, in order

ditherVars == <<data, width, height, colorCache, call, ncalls>>

exportVars == <<isExporting, exportProgress, abortRef, rendered, now, runs>>

vars == <<ditherVars, exportVars>>

Zero == <<0, 1>>

\* The hook as useVideoExport() returns it on first render.
ExportIdle ==
  /\ isExporting = FALSE
  /\ exportProgress = Zero
  /\ abortRef = FALSE
  /\ rendered = FALSE
  /\ now = 0
  /\ runs = <<>>

(***************************************************************************)
(* Inputs.                                                                  *)
(***************************************************************************)
PalA == << <<0, 0, 0>>, <<255, 255, 255>> >>
PalB == << <<255, 0, 0>>, <<0, 255, 0>>, <<0, 0, 255>> >>
Palettes == {PalA, PalB}

Intensities == {<<0, 1>>, <<1, 2>>, <<1, 1>>}
Resolutions == {<<1, 2>>, <<1, 1>>}

\* The arguments <<palette, intensity, resolution>> of the calls of Spec.
Args == Palettes \X Intensities \X Resolutions

\* The arguments of the calls of SpecSeq.
SeqArgs == Palettes \X {One} \X Resolutions

\* RGBA values of the input pixels: a palette entry, a mid grey between two
\* entries, and colours with other alpha values.
PixelSet == {<<0, 0, 0, 255>>, <<127, 127, 127, 128>>, <<200, 30, 90, 0>>}

Dims == {<<1, 1>>, <<3, 2>>, <<4, 1>>}

\* The w x h buffer whose pixels alternate between c1 and c2.
Checker(w, h, c1, c2) ==
  [i \in 0..(w * h * 4 - 1) |->
     LET p == i \div 4
         c == IF ((p % w) + (p \div w)) % 2 = 0 THEN c1 ELSE c2
     IN  c[(i % 4) + 1]]

Image(d, c1, c2) ==
  [width |-> d[1], height |-> d[2], data |-> Checker(d[1], d[2], c1, c2)]

\* The buffers of Spec.
Images == {Image(d, c1, c2) : d \in Dims, c1 \in PixelSet, c2 \in PixelSet}

\* The buffers of SpecSeq.
SeqImages ==
  {Image(<<1, 1>>, <<0, 0, 0, 255>>, <<0, 0, 0, 255>>),
   Image(<<3, 2>>, <<0, 0, 0, 255>>, <<127, 127, 127, 128>>),
   Image(<<4, 1>>, <<200, 30, 90, 0>>, <<0, 0, 0, 255>>)}

\* The colours looked up in SpecCache.
LookupColours ==
  {<<0, 0, 0>>, <<0, 0, 1>>, <<0, 1, 0>>, <<0, 32, 0>>, <<1, 0, 0>>, <<127, 127, 127>>}

NoCall ==
  [fn |-> "none", palette |-> <<>>, intensity |-> One, resolution |-> One,
   before |-> <<>>, clean |-> TRUE, log |-> <<>>, trace |-> <<>>,
   ev |-> <<>>]

\* Every entry of the cache was stored by a scan of palette.
CacheClean(cache, palette) == \A i \in 1..Len(cache) : cache[i].pal = palette

\* The state a library call starts in.
Start == [data |-> data, buf |-> <<>>, cache |-> colorCache, log |-> <<>>,
          trace |-> <<>>, ev |-> <<>>]

\* The state after a library call that ended in st.
Finish(fn, palette, intensity, resolution, st) ==
  /\ data' = st.data
  /\ colorCache' = st.cache
  /\ call' = [fn |-> fn, palette |-> palette, intensity |-> intensity,
              resolution |-> resolution, before |-> data,
              clean |-> CacheClean(colorCache, palette),
              log |-> st.log, trace |-> st.trace, ev |-> st.ev]
  /\ ncalls' = ncalls + 1
  /\ UNCHANGED <<width, height>>
  /\ UNCHANGED exportVars

InitOn(images) ==
  /\ \E img \in images :
       /\ data = img.data
       /\ width = img.width
       /\ height = img.height
  /\ colorCache = <<>>
  /\ call = NoCall
  /\ ncalls = 0
  /\ ExportIdle

Init == InitOn(Images)

CallBayer(args, max) ==
  /\ ncalls < max
  /\ \E a \in args :
       \E st \in {applyBayerDithering(Start, width, height, a[1], a[2], a[3])} :
         Finish("bayer", a[1], a[2], a[3], st)

CallFloydSteinberg(args, max) ==
  /\ ncalls < max
  /\ \E a \in args :
       \E st \in {applyFloydSteinbergDithering(Start, width, height, a[1], a[2],
                                               a[3])} :
         Finish("floydSteinberg", a[1], a[2], a[3], st)

CallJJN(args, max) ==
  /\ ncalls < max
  /\ \E a \in args :
       \E st \in {applyJJNDithering(Start, width, height, a[1], a[2], a[3])} :
         Finish("jjn", a[1], a[2], a[3], st)

CallStucki(args, max) ==
  /\ ncalls < max
  /\ \E a \in args :
       \E st \in {applyStuckiDithering(Start, width, height, a[1], a[2], a[3])} :
         Finish("stucki", a[1], a[2], a[3], st)

CallSierra(args, max) ==
  /\ ncalls < max
  /\ \E a \in args :
       \E st \in {applySierraDithering(Start, width, height, a[1], a[2], a[3])} :
         Finish("sierra", a[1], a[2], a[3], st)

CallReduce(max) ==
  /\ ncalls < max
  /\ \E palette \in Palettes :
       \E st \in {reduceColorsTopalette(Start, palette)} :
         Finish("reduce", palette, One, One, st)

Next ==
  \/ CallBayer(Args, MaxCalls)
  \/ CallFloydSteinberg(Args, MaxCalls)
  \/ CallJJN(Args, MaxCalls)
  \/ CallStucki(Args, MaxCalls)
  \/ CallSierra(Args, MaxCalls)
  \/ CallReduce(MaxCalls)

\* Every library function called once on each of the buffers.
Spec == Init /\ [][Next]_vars

(***************************************************************************)
(* SpecSeq: sequences of calls on one buffer, the palette changing from     *)
(* call to call.                                                            *)
(***************************************************************************)
InitSeq == InitOn(SeqImages)

NextSeq ==
  \/ CallBayer(SeqArgs, MaxSeqCalls)
  \/ CallFloydSteinberg(SeqArgs, MaxSeqCalls)
  \/ CallJJN(SeqArgs, MaxSeqCalls)
  \/ CallStucki(SeqArgs, MaxSeqCalls)
  \/ CallSierra(SeqArgs, MaxSeqCalls)
  \/ CallReduce(MaxSeqCalls)

SpecSeq == InitSeq /\ [][NextSeq]_vars

(***************************************************************************)
(* SpecScaler: the scaler called on its own with resolution 1.0.            *)
(***************************************************************************)
\* applyDitheringAtLowerResolution(data, width, height, palette, intensity,
\* 1.0, type)
CallScaler(max) ==
  /\ ncalls < max
  /\ \E type \in {"bayer", "floydSteinberg", "jjn", "stucki", "sierra"} :
       \E palette \in Palettes, intensity \in Intensities :
         \E st \in {applyDitheringAtLowerResolution(Start, width, height,
                                                    palette, intensity, One,
                                                    type)} :
           Finish("scaler", palette, intensity, One, st)

NextScaler == CallScaler(MaxScalerCalls)

SpecScaler == Init /\ [][NextScaler]_vars

(***************************************************************************)
(* SpecKernel: the four error-diffusion functions at full resolution on     *)
(* buffers wide and high enough to have pixels away from every edge, and on *)
(* a buffer one pixel wide and a buffer one pixel high.                     *)
(***************************************************************************)
KernelDims == {<<6, 3>>, <<1, 3>>, <<2, 1>>}

KernelImages == {Image(d, c1, c2) : d \in KernelDims, c1 \in PixelSet, c2 \in PixelSet}

KernelArgs == Palettes \X Intensities \X {One}

InitKernel == InitOn(KernelImages)

NextKernel ==
  \/ CallFloydSteinberg(KernelArgs, MaxCalls)
  \/ CallJJN(KernelArgs, MaxCalls)
  \/ CallStucki(KernelArgs, MaxCalls)
  \/ CallSierra(KernelArgs, MaxCalls)

SpecKernel == InitKernel /\ [][NextKernel]_vars

(***************************************************************************)
(* SpecIdem: the error-diffusion functions at full resolution and           *)
(* reduceColorsTopalette on buffers made of palette entries.                *)
(***************************************************************************)
\* Entries of PalA (black, white) and an entry of PalB (blue), opaque.
IdemPixels == {<<0, 0, 0, 255>>, <<255, 255, 255, 255>>, <<0, 0, 255, 255>>}

IdemImages ==
  {Image(d, c1, c2) : d \in {<<3, 2>>, <<4, 1>>}, c1 \in IdemPixels, c2 \in IdemPixels}

InitIdem == InitOn(IdemImages)

NextIdem ==
  \/ CallFloydSteinberg(KernelArgs, MaxCalls)
  \/ CallJJN(KernelArgs, MaxCalls)
  \/ CallStucki(KernelArgs, MaxCalls)
  \/ CallSierra(KernelArgs, MaxCalls)
  \/ CallReduce(MaxCalls)

SpecIdem == InitIdem /\ [][NextIdem]_vars

(***************************************************************************)
(* SpecCache: single lookups on a cache that is empty, one entry short of   *)
(* full, or full.                                                           *)
(***************************************************************************)
\* The colour whose cache key is k.
KeyRGB(k) == <<k \div 65536, (k \div 256) % 256, k % 256>>

\* colorCache after reduceColorsTopalette(d, palette) on a buffer d of n
\* pixels, n <= MAX_CACHE_SIZE, whose i-th pixel has the colour KeyRGB(i - 1):
\* n misses on an emptied cache, stored in order.
FilledCache(n, palette) ==
  [i \in 1..n |->
     LET c == KeyRGB(i - 1)
     IN  CacheEntry(CacheKey(c[1], c[2], c[3]), c, Scan(c[1], c[2], c[3], palette),
                    palette)]

InitCache ==
  /\ data = ZeroArray(0)
  /\ width = 0
  /\ height = 0
  /\ \E n \in {0, MAX_CACHE_SIZE - 1, MAX_CACHE_SIZE} :
       colorCache = FilledCache(n, PalB)
  /\ call = NoCall
  /\ ncalls = 0
  /\ ExportIdle

\* One call of findNearestColor, as a dithering function makes it for one pixel.
Lookup ==
  /\ ncalls < MaxLookups
  /\ \E c \in LookupColours, palette \in Palettes :
       \E q \in {FindNearestColor(c[1], c[2], c[3], palette, colorCache)} :
         /\ colorCache' = q.cache
         /\ call' = [fn |-> "findNearestColor", palette |-> palette,
                     intensity |-> One, resolution |-> One, before |-> <<>>,
                     clean |-> CacheClean(colorCache, palette),
                     log |-> <<q.rec>>, trace |-> <<>>,
                     ev |-> <<>>]
         /\ ncalls' = ncalls + 1
         /\ UNCHANGED <<data, width, height>>
         /\ UNCHANGED exportVars

NextCache == Lookup

SpecCache == InitCache /\ [][NextCache]_vars

(***************************************************************************)
(* The export scheduler: the useVideoExport hook.  Times are in ms, as      *)
(* Date.now() gives them; fractions are pairs <<n, d>>.                      *)
(***************************************************************************)
\* Latest reading of the clock in a behaviour.
MaxTime == 8
\* Number of calls of exportVideo that get past its guard in a behaviour.
MaxRuns == 1

\* Faulty variant of Round: the fraction is dropped.
RoundDown(n, d) == n \div d

\* Math.round(n / d) for n >= 0 and d > 0.
Round(n, d) == ((2 * n) + d) \div (2 * d)

\* const targetDuration = settings.loopDuration * settings.exportLoopCount;
\* const targetFrameCount = Math.round(targetDuration * settings.exportFps);
TargetFrameCount(settings) ==
  Round(settings.loopDuration[1] * settings.exportLoopCount * settings.exportFps,
        settings.loopDuration[2])

\* const exactDurationMs = (targetFrameCount / settings.exportFps) * 1000;
ExactDurationMs(settings) ==
  <<TargetFrameCount(settings) * 1000, settings.exportFps>>

\* const frameIntervalMs = 1000 / settings.exportFps;
FrameIntervalMs(settings) == <<1000, settings.exportFps>>

\* const stopDurationMs = exactDurationMs - (frameIntervalMs * 0.1);
StopDurationMs(settings) ==
  <<(ExactDurationMs(settings)[1] * 10) - FrameIntervalMs(settings)[1],
    10 * settings.exportFps>>

\* Math.floor((elapsed / 1000) * settings.exportFps)
CurrentFrameNumber(elapsed, settings) == (elapsed * settings.exportFps) \div 1000

\* Faulty variant of Advanced: a tick on the frame already captured is not dropped.
AdvancedOrSame(currentFrameNumber, capturedFrames) ==
  currentFrameNumber >= capturedFrames

\* The negation of "if (currentFrameNumber <= capturedFrames) return;".
Advanced(currentFrameNumber, capturedFrames) ==
  currentFrameNumber > capturedFrames

\* Math.min(elapsed / exactDurationMs, 1)
ProgressFraction(elapsed, settings) ==
  LET exact == ExactDurationMs(settings)
  IN  IF elapsed * exact[2] < exact[1] THEN <<elapsed * exact[2], exact[1]>>
      ELSE <<1, 1>>

\* Faulty variant of StopReached: the stop time is tested for equality.
StopOnBoundary(elapsed, settings) ==
  LET stop == StopDurationMs(settings)
  IN  elapsed * stop[2] = stop[1]

\* elapsed >= stopDurationMs
StopReached(elapsed, settings) ==
  LET stop == StopDurationMs(settings)
  IN  elapsed * stop[2] >= stop[1]

RECURSIVE GCD(_, _)
GCD(a, b) == IF b = 0 THEN a ELSE GCD(b, a % b)

\* The fraction n / d, d > 0, in lowest terms.
Frac(n, d) ==
  LET g == GCD(IF n < 0 THEN -n ELSE n, d)
  IN  IF g = 0 THEN <<0, 1>> ELSE <<n \div g, d \div g>>

\* Faulty variant of ExportIsWider: the comparison is turned round.
ExportIsNarrower(canvas, settings) ==
  settings.exportWidth * canvas[2] < canvas[1] * settings.exportHeight

\* exportAspectRatio > screenAspectRatio, for a canvas <<width, height>>
ExportIsWider(canvas, settings) ==
  settings.exportWidth * canvas[2] > canvas[1] * settings.exportHeight

\* "Calculate crop dimensions to match export aspect ratio": the locals
\* cropWidth, cropHeight, cropX, cropY.
Crop(canvas, settings) ==
  LET screenWidth == canvas[1]
      screenHeight == canvas[2]
      ew == settings.exportWidth
      eh == settings.exportHeight
  IN  IF ExportIsWider(canvas, settings)
      THEN [cropWidth |-> Frac(screenWidth, 1),
            cropHeight |-> Frac(screenWidth * eh, ew),
            cropX |-> Frac(0, 1),
            cropY |-> Frac(screenHeight * ew - screenWidth * eh, 2 * ew)]
      ELSE [cropHeight |-> Frac(screenHeight, 1),
            cropWidth |-> Frac(screenHeight * ew, eh),
            cropX |-> Frac(screenWidth * eh - screenHeight * ew, 2 * eh),
            cropY |-> Frac(0, 1)]

\* baseMultiplier, as a fraction.
BaseMultiplier(quality) ==
  CASE quality = "good" -> <<3, 5>>
    [] quality = "excellent" -> <<3, 2>>
    [] quality = "maximum" -> <<3, 1>>

\* Faulty variant of ClampBitrate: no upper bound.
ClampBitrateBelow(bitrate) == Max(500000, bitrate)

\* Math.max(500000, Math.min(bitrate, 80000000))
ClampBitrate(bitrate) == Max(500000, Min(bitrate, 80000000))

\* calculateBitrate(width, height, quality, fps)
calculateBitrate(w, h, quality, fps) ==
  LET pixelCount == w * h
      baseMultiplier == BaseMultiplier(quality)
      bitrate == Round(pixelCount * fps * baseMultiplier[1], baseMultiplier[2])
  IN  ClampBitrate(bitrate)

\* Settings the sets of settings below are variations of.
BaseSettings ==
  [exportFormat |-> "webm", asciiEnabled |-> FALSE, exportFps |-> 500,
   loopDuration |-> <<6, 1000>>, exportLoopCount |-> 1,
   exportWidth |-> 2, exportHeight |-> 2, exportQuality |-> "good",
   ditheringEnabled |-> TRUE, ditheringType |-> "bayer",
   paletteType |-> "gameboy"]

\* The canvas <<width, height>> exported from.
ExportCanvas == <<4, 2>>

\* The settings exported with: a recording of the canvas, a recording of the
\* ASCII rendering, and a GIF; 3 frames of 2 ms each.
ExportSettings ==
  {[BaseSettings EXCEPT !.exportFormat = f[1], !.asciiEnabled = f[2]] :
     f \in {<<"webm", FALSE>>, <<"webm", TRUE>>, <<"gif", FALSE>>}}

\* What the browser can refuse during the set-up of a run: a 2D context
\* (GIF path), the construction of the MediaRecorder, its start.
Failures(settings) ==
  IF settings.exportFormat = "gif" THEN {"none", "context"}
  ELSE {"none", "recorder", "start"}

\* What happens to one capture+process cycle.
GifOutcomes == {"ok", "throws"}
TickOutcomes == {"ok", "throws", "noContext"}

\* A call of exportVideo at its "try".  pc: where the call is suspended.
\* targetFrameCount, exactDurationMs, stopDurationMs, crop (cropWidth,
\* cropHeight, cropX, cropY), videoBitsPerSecond (0 until it is assigned):
\* the locals of those names.
\* frames: the GIF path's array, by loop index.  capturedFrames,
\* recordingStartTime, startTime: the locals of those names.  captureTimer,
\* progressTimer: the interval is set.  recorder: the MediaRecorder's state.
\* History: cycles, the frame indices for which a capture+process cycle began;
\* frameErrors, the number of cycles that threw; noContext, a 2D context was
\* refused; effects, the processing applied in the cycles that completed;
\* zeroSkipped, a tick of the capture loop computed the frame index 0 while
\* capturedFrames still had its initial value, and returned at its test;
\* alerts, downloads: failures reported, files delivered.
NewRun(canvas, settings) ==
  [settings |-> settings, canvas |-> canvas, pc |-> "try", i |-> 0,
   frames |-> <<>>,
   crop |-> Crop(canvas, settings),
   videoBitsPerSecond |-> 0,
   targetFrameCount |-> TargetFrameCount(settings),
   exactDurationMs |-> ExactDurationMs(settings),
   stopDurationMs |-> StopDurationMs(settings),
   capturedFrames |-> 0, recordingStartTime |-> 0, startTime |-> 0,
   captureTimer |-> FALSE, progressTimer |-> FALSE, recorder |-> "none",
   cycles |-> <<>>, frameErrors |-> 0, noContext |-> FALSE, effects |-> <<>>,
   zeroSkipped |-> FALSE, alerts |-> 0, downloads |-> 0]

\* The processing of one captured frame: the ASCII rendering, or the library
\* function the frame's pixels are handed to ("none": the frame is drawn as
\* captured).
FrameEffect(settings) ==
  IF settings.asciiEnabled THEN "ascii"
  ELSE IF settings.ditheringEnabled \/ settings.paletteType # "full"
  THEN IF settings.ditheringEnabled
       THEN IF settings.ditheringType = "bayer" THEN "bayer" ELSE "floydSteinberg"
       ELSE "reduce"
  ELSE "none"

\* if (currentFrameNumber <= capturedFrames) return;
Returned(run, currentFrameNumber) ==
  IF currentFrameNumber = 0 /\ run.capturedFrames = 0
  THEN [run EXCEPT !.zeroSkipped = TRUE]
  ELSE run

\* A capture+process cycle ran to its end.
Processed(run) == [run EXCEPT !.effects = Append(@, FrameEffect(run.settings))]

\* catch (error) { console.error(...); alert(...) }: the run is over.
Caught(run) == [run EXCEPT !.pc = "done", !.alerts = @ + 1]

\* Faulty variant of FrameCaught: the exception of a cycle reaches the catch
\* of exportVideo.
FrameUncaught(run) == Caught([run EXCEPT !.frameErrors = @ + 1])

\* catch (e) { ... } around one capture+process cycle: the exception goes no
\* further.
FrameCaught(run) == [run EXCEPT !.frameErrors = @ + 1]

\* The GIF path from the test of "for (let i = 0; i < targetFrameCount; i++)"
\* for index i to the next suspension: the run, and whether this stretch ran
\* into the "finally".
GifLoopHead(run, i, abort) ==
  LET targetFrameCount == TargetFrameCount(run.settings)
  IN  IF i < targetFrameCount /\ ~abort
      THEN [run |-> [run EXCEPT !.pc = "gifSleep", !.i = i],
            exportProgress |-> <<i, targetFrameCount>>, finally |-> FALSE]
      ELSE IF ~abort /\ Len(run.frames) > 0
      THEN [run |-> [run EXCEPT !.pc = "gifEncoding", !.i = i],
            exportProgress |-> Zero, finally |-> TRUE]
      ELSE [run |-> [run EXCEPT !.pc = "done", !.i = i],
            exportProgress |-> Zero, finally |-> TRUE]

\* exportVideo with settings.exportFormat = 'gif', from the "try" to the
\* first "await".
StartGif(canvas, settings, failure) ==
  IF failure = "context"
  THEN /\ runs' = Append(runs, Caught([NewRun(canvas, settings) EXCEPT !.noContext = TRUE]))
       /\ isExporting' = FALSE
       /\ exportProgress' = Zero
  ELSE \E head \in {GifLoopHead(NewRun(canvas, settings), 0, FALSE)} :
         /\ runs' = Append(runs, head.run)
         /\ isExporting' = ~head.finally
         /\ exportProgress' = head.exportProgress

\* exportVideo for a video format, from the "try" to "await new Promise":
\* the capture interval is set before the MediaRecorder is constructed.
StartVideo(canvas, settings, failure) ==
  LET capturing == [NewRun(canvas, settings) EXCEPT
                      !.captureTimer = TRUE,
                      !.capturedFrames = 0,
                      !.recordingStartTime = now,
                      !.videoBitsPerSecond =
                         calculateBitrate(settings.exportWidth,
                                          settings.exportHeight,
                                          settings.exportQuality,
                                          settings.exportFps)]
  IN  IF failure \in {"recorder", "start"}
      THEN /\ runs' = Append(runs, Caught(capturing))
           /\ isExporting' = FALSE
           /\ exportProgress' = Zero
      ELSE /\ runs' = Append(runs, [capturing EXCEPT !.startTime = now,
                                                     !.recorder = "recording",
                                                     !.progressTimer = TRUE,
                                                     !.pc = "recording"])
           /\ isExporting' = TRUE
           /\ exportProgress' = Zero

\* exportVideo(canvas, settings), up to its first suspension, for a canvas
\* of canvases and the settings of choices.
ExportVideoWith(canvases, choices, max) ==
  /\ Len(runs) < max
  /\ ~rendered
  /\ \E canvas \in canvases, settings \in choices :
       \E failure \in Failures(settings) :
         IF settings.exportFormat = "gif" THEN StartGif(canvas, settings, failure)
         ELSE StartVideo(canvas, settings, failure)
  /\ abortRef' = FALSE
  /\ UNCHANGED <<rendered, now>>
  /\ UNCHANGED ditherVars

ExportVideo(max) == ExportVideoWith({ExportCanvas}, ExportSettings, max)

\* The component renders again: useCallback's dependency [isExporting] makes
\* a new exportVideo that closes over the committed value.
Render ==
  /\ rendered # isExporting
  /\ rendered' = isExporting
  /\ UNCHANGED <<isExporting, exportProgress, abortRef, now, runs>>
  /\ UNCHANGED ditherVars

\* cancelExport()
CancelExport ==
  /\ abortRef' = TRUE
  /\ UNCHANGED <<isExporting, exportProgress, rendered, now, runs>>
  /\ UNCHANGED ditherVars

\* The setTimeout of GIF iteration i fires: the frame is captured inside the
\* try, and the loop runs on to its next suspension or to the end of the call.
GifTimeout(r) ==
  /\ runs[r].pc = "gifSleep"
  /\ \E outcome \in GifOutcomes :
       LET run == runs[r]
           begun == [run EXCEPT !.cycles = Append(@, run.i)]
           captured == IF outcome = "ok"
                       THEN Processed([begun EXCEPT !.frames = Append(@, run.i)])
                       ELSE FrameCaught(begun)
       IN  \E head \in {GifLoopHead(captured, run.i + 1, abortRef)} :
             /\ runs' = [runs EXCEPT ![r] = head.run]
             /\ isExporting' = IF head.finally THEN FALSE ELSE isExporting
             /\ exportProgress' = head.exportProgress
  /\ UNCHANGED <<abortRef, rendered, now>>
  /\ UNCHANGED ditherVars

\* gif.on('progress', p => setExportProgress(0.5 + p * 0.5))
GifProgress(r) ==
  /\ runs[r].pc = "gifEncoding"
  /\ \E p \in {<<0, 1>>, <<1, 2>>, <<1, 1>>} :
       exportProgress' = <<p[2] + p[1], 2 * p[2]>>
  /\ UNCHANGED <<isExporting, abortRef, rendered, now, runs>>
  /\ UNCHANGED ditherVars

\* gif.on('finished', blob => ...): the file is delivered.
GifFinished(r) ==
  /\ runs[r].pc = "gifEncoding"
  /\ runs' = [runs EXCEPT ![r].pc = "done", ![r].downloads = @ + 1]
  /\ isExporting' = FALSE
  /\ exportProgress' = Zero
  /\ UNCHANGED <<abortRef, rendered, now>>
  /\ UNCHANGED ditherVars

\* A tick of compositeCaptureLoop (either of the two: they differ in the
\* processing only).
CaptureTick(r) ==
  /\ runs[r].captureTimer
  /\ \E outcome \in TickOutcomes :
       LET run == runs[r]
           elapsed == now - run.recordingStartTime
           currentFrameNumber == CurrentFrameNumber(elapsed, run.settings)
       IN  IF ~Advanced(currentFrameNumber, run.capturedFrames)
           THEN runs' = [runs EXCEPT ![r] = Returned(run, currentFrameNumber)]
           ELSE IF outcome = "noContext"
           THEN runs' = [runs EXCEPT ![r].capturedFrames = currentFrameNumber,
                                     ![r].noContext = TRUE]
           ELSE LET begun == [run EXCEPT !.capturedFrames = currentFrameNumber,
                                         !.cycles = Append(@, currentFrameNumber)]
                IN  runs' = [runs EXCEPT ![r] = IF outcome = "ok"
                                                THEN Processed(begun)
                                                ELSE FrameCaught(begun)]
  /\ UNCHANGED <<isExporting, exportProgress, abortRef, rendered, now>>
  /\ UNCHANGED ditherVars

\* A tick of progressInterval.
ProgressTick(r) ==
  /\ runs[r].progressTimer
  /\ LET run == runs[r]
         elapsed == now - run.startTime
     IN  /\ exportProgress' = ProgressFraction(elapsed, run.settings)
         /\ IF StopReached(elapsed, run.settings) \/ abortRef
            THEN runs' = [runs EXCEPT ![r].progressTimer = FALSE,
                                      ![r].recorder = "stopping"]
            ELSE UNCHANGED runs
  /\ UNCHANGED <<isExporting, abortRef, rendered, now>>
  /\ UNCHANGED ditherVars

\* mediaRecorder.onstop, and the rest of exportVideo that its resolve() lets
\* run: the "finally".
OnStop(r) ==
  /\ runs[r].recorder = "stopping"
  /\ \E hasChunks \in BOOLEAN :
       runs' = [runs EXCEPT ![r].progressTimer = FALSE,
                            ![r].captureTimer = FALSE,
                            ![r].downloads = IF ~abortRef /\ hasChunks
                                             THEN @ + 1 ELSE @,
                            ![r].recorder = "inactive",
                            ![r].pc = "done"]
  /\ isExporting' = FALSE
  /\ exportProgress' = Zero
  /\ UNCHANGED <<abortRef, rendered, now>>
  /\ UNCHANGED ditherVars

\* Time passes.
AdvanceClock ==
  /\ now < MaxTime
  /\ now' = now + 1
  /\ UNCHANGED <<isExporting, exportProgress, abortRef, rendered, runs>>
  /\ UNCHANGED ditherVars

\* The system clock is set back: Date.now() is not monotonic.
ClockSetBack ==
  /\ now > 0
  /\ now' = now - 1
  /\ UNCHANGED <<isExporting, exportProgress, abortRef, rendered, runs>>
  /\ UNCHANGED ditherVars

InitExport ==
  /\ data = ZeroArray(0)
  /\ width = 0
  /\ height = 0
  /\ colorCache = <<>>
  /\ call = NoCall
  /\ ncalls = 0
  /\ ExportIdle

NextExport ==
  \/ ExportVideo(MaxRuns)
  \/ Render
  \/ CancelExport
  \/ \E r \in 1..Len(runs) : GifTimeout(r)
  \/ \E r \in 1..Len(runs) : GifProgress(r)
  \/ \E r \in 1..Len(runs) : GifFinished(r)
  \/ \E r \in 1..Len(runs) : CaptureTick(r)
  \/ \E r \in 1..Len(runs) : ProgressTick(r)
  \/ \E r \in 1..Len(runs) : OnStop(r)
  \/ AdvanceClock

\* Exports under a clock that only moves forward.
SpecExport == InitExport /\ [][NextExport]_vars

\* The settings of SpecEffect: a recording of the canvas and a GIF, two
\* frames of 2 ms each, with dithering on and each of the five values of
\* ditheringType, and with dithering off and the palette "full" or another.
EffectSettings ==
  {[BaseSettings EXCEPT !.exportFormat = f, !.loopDuration = <<4, 1000>>,
                        !.ditheringEnabled = d[1], !.ditheringType = d[2],
                        !.paletteType = d[3]] :
     f \in {"webm", "gif"},
     d \in ({TRUE} \X {"bayer", "floydSteinberg", "jjn", "stucki", "sierra"}
              \X {"gameboy"})
           \cup ({FALSE} \X {"bayer"} \X {"full", "gameboy"})}

NextEffect ==
  \/ ExportVideoWith({ExportCanvas}, EffectSettings, MaxRuns)
  \/ \E r \in 1..Len(runs) : GifTimeout(r)
  \/ \E r \in 1..Len(runs) : GifFinished(r)
  \/ \E r \in 1..Len(runs) : CaptureTick(r)
  \/ \E r \in 1..Len(runs) : ProgressTick(r)
  \/ \E r \in 1..Len(runs) : OnStop(r)
  \/ AdvanceClock

\* Exports that are not cancelled, under each setting of the frame effects.
SpecEffect == InitExport /\ [][NextEffect]_vars

NextExportSkew == NextExport \/ ClockSetBack

\* Exports under a clock that can also be set back.
SpecExportSkew == InitExport /\ [][NextExportSkew]_vars

(***************************************************************************)
(* SpecTiming: exportVideo started over a range of durations, loop counts   *)
(* and frame rates.                                                         *)
(***************************************************************************)
TimingSettings ==
  {[BaseSettings EXCEPT !.exportFormat = f, !.exportFps = fps,
                        !.loopDuration = d, !.exportLoopCount = n] :
     f \in {"webm", "gif"},
     fps \in {1, 15, 24, 25, 30, 60},
     d \in {<<1, 10>>, <<1, 2>>, <<1, 1>>, <<2, 1>>, <<5, 2>>, <<7, 3>>},
     n \in {1, 2, 3}}

NextTiming == ExportVideoWith({ExportCanvas}, TimingSettings, MaxRuns)

(***************************************************************************)
(* SpecCrop: exportVideo started over a range of canvas sizes and export    *)
(* sizes.  SpecBitrate: over a range of export sizes, qualities and frame   *)
(* rates.                                                                   *)
(***************************************************************************)
CropCanvases == {<<1920, 1080>>, <<1, 1>>, <<4, 2>>, <<3, 3>>, <<2, 5>>}

CropSettings ==
  {[BaseSettings EXCEPT !.exportFormat = f, !.exportWidth = e[1],
                        !.exportHeight = e[2], !.exportFps = 30] :
     f \in {"webm", "gif"},
     e \in {<<1080, 1080>>, <<1, 1>>, <<4, 2>>, <<2, 3>>, <<5, 1>>, <<16, 9>>}}

NextCrop == ExportVideoWith(CropCanvases, CropSettings, MaxRuns)

SpecCrop == InitExport /\ [][NextCrop]_vars

\* Export sizes whose bitrate falls below, inside and above the clamp.
BitrateSettings ==
  {[BaseSettings EXCEPT !.exportFormat = f, !.exportWidth = e[1],
                        !.exportHeight = e[2], !.exportQuality = q,
                        !.exportFps = fps] :
     f \in {"webm", "mp4"},
     e \in {<<100, 100>>, <<1280, 720>>, <<1920, 1080>>},
     q \in {"good", "excellent", "maximum"},
     fps \in {24, 30, 60}}

NextBitrate == ExportVideoWith({ExportCanvas}, BitrateSettings, MaxRuns)

SpecBitrate == InitExport /\ [][NextBitrate]_vars

SpecTiming == InitExport /\ [][NextTiming]_vars

(***************************************************************************)
(* Properties.                                                              *)
(***************************************************************************)
DitherFns == {"bayer", "floydSteinberg", "jjn", "stucki", "sierra"}

\* The RGB of pixel p of the buffer d.
PixelRGB(d, p) == <<d[4 * p], d[(4 * p) + 1], d[(4 * p) + 2]>>

Pixels == 0..((width * height) - 1)

IsPaletteEntry(c, palette) == \E i \in 1..Len(palette) : palette[i] = c

\* c is the entry of palette at the least squared distance from rgb, and
\* the first of the entries at that distance.
FirstNearest(c, rgb, palette) ==
  \E i \in 1..Len(palette) :
    /\ palette[i] = c
    /\ \A j \in 1..Len(palette) :
         /\ Dist(rgb[1], rgb[2], rgb[3], palette[j]) >=
              Dist(rgb[1], rgb[2], rgb[3], palette[i])
         /\ j < i => Dist(rgb[1], rgb[2], rgb[3], palette[j]) >
                       Dist(rgb[1], rgb[2], rgb[3], palette[i])

StrictlyIncreasing(seq) ==
  \A i \in 1..Len(seq) : \A j \in 1..Len(seq) : i < j => seq[i] < seq[j]

IsVideo(run) == run.settings.exportFormat # "gif"

\* C1: after a call of any of the five dithering functions that started with
\* no cache entry of another palette, the RGB of every pixel is an entry of
\* the palette passed to the call.
C1_OutputInPalette ==
  (call.fn \in DitherFns /\ call.clean) =>
    \A p \in Pixels : IsPaletteEntry(PixelRGB(data, p), call.palette)

\* C1 happens: a dithering call through the scaled path, at an intensity
\* strictly between 0 and 1, on a buffer with a pixel that was no palette
\* entry.
C1_Witness ==
  /\ call.fn \in DitherFns
  /\ call.clean
  /\ call.resolution = <<1, 2>>
  /\ call.intensity = <<1, 2>>
  /\ width = 3
  /\ \E p \in Pixels : ~IsPaletteEntry(PixelRGB(call.before, p), call.palette)
  /\ \A p \in Pixels : IsPaletteEntry(PixelRGB(data, p), call.palette)

\* C2: in a sequence of calls whose palettes differ, every colour the
\* quantizer returns during a call was computed by a scan of that call's
\* palette.
C2_NoStaleEntry ==
  \A k \in 1..Len(call.log) : call.log[k].pal = call.palette

\* C3: in a run of the video path the frame indices of the capture+process
\* cycles are strictly increasing, and a step that begins a cycle is a tick
\* whose frame number lies beyond the last captured index.
C3_CaptureIndicesIncrease ==
  [][\A r \in 1..Len(runs) :
       IsVideo(runs[r]) =>
         /\ StrictlyIncreasing(runs'[r].cycles)
         /\ runs'[r].cycles # runs[r].cycles =>
              /\ CurrentFrameNumber(now - runs[r].recordingStartTime,
                                    runs[r].settings) > runs[r].capturedFrames
              /\ runs'[r].cycles =
                   Append(runs[r].cycles,
                          CurrentFrameNumber(now - runs[r].recordingStartTime,
                                             runs[r].settings))]_vars

\* C3 happens: two frames have been captured and the clock has been set back
\* behind the last of them, so that the next tick finds no new frame.
C3_Witness ==
  \E r \in 1..Len(runs) :
    /\ IsVideo(runs[r])
    /\ runs[r].captureTimer
    /\ Len(runs[r].cycles) >= 2
    /\ CurrentFrameNumber(now - runs[r].recordingStartTime, runs[r].settings)
         < runs[r].capturedFrames

\* C4: from a state in which the abort flag is set, no step begins a
\* capture+process cycle.
C4_NoCaptureAfterAbort ==
  [][abortRef => \A r \in 1..Len(runs) : runs'[r].cycles = runs[r].cycles]_vars

\* C5: a run that has ended has neither its capture timer nor its progress
\* timer set.
C5_TimersClearedAtEnd ==
  \A r \in 1..Len(runs) :
    runs[r].pc = "done" => ~runs[r].captureTimer /\ ~runs[r].progressTimer

\* C6: after a call of any of the five dithering functions every pixel has
\* the alpha it had before the call.
C6_AlphaPreserved ==
  call.fn \in DitherFns =>
    \A p \in Pixels : data[(4 * p) + 3] = call.before[(4 * p) + 3]

\* C7: a lookup that missed the cache returned the palette entry at the
\* least squared distance, the first of them in palette order.
C7_MissReturnsFirstNearest ==
  \A k \in 1..Len(call.log) :
    ~call.log[k].hit => FirstNearest(call.log[k].ret, call.log[k].rgb, call.palette)

\* C7 happens: a miss on a colour at the same distance from all entries of
\* the palette returned the first entry.
C7_Witness ==
  \E k \in 1..Len(call.log) :
    /\ ~call.log[k].hit
    /\ call.log[k].rgb = <<0, 0, 0>>
    /\ call.palette = PalB
    /\ call.log[k].ret = PalB[1]

\* C8: while every entry of the cache comes from the palette in use, a lookup
\* returns what a scan of the palette returns, a hit is served from the entry
\* stored for the same colour, and distinct colours have distinct keys.
C8_MemoEqualsScan ==
  /\ (call.fn = "findNearestColor" /\ call.clean) =>
       LET rec == call.log[1]
       IN  /\ rec.ret = Scan(rec.rgb[1], rec.rgb[2], rec.rgb[3], call.palette)
           /\ rec.hit => rec.src = rec.rgb
  /\ \A c \in LookupColours : \A d \in LookupColours :
       CacheKey(c[1], c[2], c[3]) = CacheKey(d[1], d[2], d[3]) => c = d

\* C8 happens: a hit on a full cache from which an earlier lookup had evicted
\* the oldest entry.
C8_Witness ==
  /\ call.fn = "findNearestColor"
  /\ call.clean
  /\ call.log[1].hit
  /\ Len(colorCache) = MAX_CACHE_SIZE
  /\ colorCache[1].key # 0

C10_ReduceIsFresh ==
  call.fn = "reduce" =>
    \A p \in Pixels :
      LET c == PixelRGB(call.before, p)
      IN  PixelRGB(data, p) = Scan(c[1], c[2], c[3], call.palette)

\* C10 happens: reduceColorsTopalette was called with entries of another
\* palette in the cache, one of them for a colour of the buffer.
C10_Witness ==
  /\ call.fn = "reduce"
  /\ ncalls = 2
  /\ ~call.clean
  /\ \E p \in Pixels : PixelRGB(call.before, p) = <<0, 0, 0>>
  /\ \A k \in 1..Len(call.log) : ~call.log[k].hit \/ k > 1

\* a <= b for fractions <<n, d>> with d > 0.
LeqFrac(a, b) == a[1] * b[2] <= b[1] * a[2]

\* C11: while a run goes on (from its start until its output is finished),
\* every step leaves the export progress in [0, 1] and no lower than it was.
C11_ProgressNonDecreasing ==
  [][\A r \in 1..Len(runs) :
       (runs[r].pc # "done" /\ runs'[r].pc # "done") =>
         /\ LeqFrac(Zero, exportProgress')
         /\ LeqFrac(exportProgress', One)
         /\ LeqFrac(exportProgress, exportProgress')]_vars

\* C12: a run of the video path whose recorder was started begins no
\* capture+process cycle for a frame index at or beyond targetFrameCount.
C12_NoBoundaryFrame ==
  \A r \in 1..Len(runs) :
    (IsVideo(runs[r]) /\ runs[r].recorder # "none") =>
      \A k \in 1..Len(runs[r].cycles) :
        runs[r].cycles[k] < TargetFrameCount(runs[r].settings)

\* C13: a run that was refused a 2D context and has ended, without having
\* been cancelled, was aborted (no file delivered) and reported the failure
\* exactly once.
C13_NoContextReportedOnce ==
  \A r \in 1..Len(runs) :
    (runs[r].pc = "done" /\ runs[r].noContext /\ ~abortRef) =>
      runs[r].alerts = 1 /\ runs[r].downloads = 0

\* C14: a step in which a capture+process cycle throws reports no failure and
\* does not end the run: on the video path the capture timer stays set and the
\* call stays suspended where it was; on the GIF path the loop goes on to its
\* next iteration, or, after the last index or with the abort flag set, to
\* the end of the loop.
C14_FrameFailureSkipsFrame ==
  [][\A r \in 1..Len(runs) :
       runs'[r].frameErrors > runs[r].frameErrors =>
         /\ runs'[r].alerts = runs[r].alerts
         /\ runs'[r].frameErrors = runs[r].frameErrors + 1
         /\ IF IsVideo(runs[r])
            THEN /\ runs'[r].captureTimer
                 /\ runs'[r].pc = runs[r].pc
                 /\ runs'[r].recorder = runs[r].recorder
                 /\ isExporting' = isExporting
            ELSE IF runs[r].i + 1 < TargetFrameCount(runs[r].settings) /\ ~abortRef
                 THEN /\ runs'[r].pc = "gifSleep"
                      /\ runs'[r].i = runs[r].i + 1
                      /\ isExporting' = isExporting
                 ELSE runs'[r].pc = IF ~abortRef /\ Len(runs[r].frames) > 0
                                    THEN "gifEncoding" ELSE "done"]_vars

\* C14 happens: a cycle threw in a run, and a later cycle of the same run
\* went through.
C14_Witness ==
  \E r \in 1..Len(runs) :
    /\ runs[r].frameErrors > 0
    /\ runs[r].alerts = 0
    /\ Len(runs[r].cycles) > runs[r].frameErrors
    /\ \/ IsVideo(runs[r]) /\ runs[r].captureTimer /\ Len(runs[r].cycles) >= 3
       \/ ~IsVideo(runs[r]) /\ runs[r].pc = "gifEncoding"
                            /\ Len(runs[r].frames) < Len(runs[r].cycles)

\* C15: while the abort flag is set and a run has not ended, no step delivers
\* a file or reports a failure for that run.
C15_CancelledRunDeliversNothing ==
  [][\A r \in 1..Len(runs) :
       (abortRef /\ runs[r].pc # "done") =>
         /\ runs'[r].downloads = runs[r].downloads
         /\ runs'[r].alerts = runs[r].alerts]_vars

\* The buffer reduceColorsTopalette(d, palette) leaves in d.
Reduced(d, palette) ==
  reduceColorsTopalette([data |-> d, buf |-> <<>>, cache |-> <<>>, log |-> <<>>,
                         trace |-> <<>>, ev |-> <<>>], palette).data

\* C16: after a call of any of the five dithering functions with resolution
\* 1.0 and intensity 0 that started with no cache entry of another palette,
\* the buffer is what reduceColorsTopalette makes of the input with the same
\* palette.
C16_ZeroIntensityIsPlainQuantization ==
  (call.fn \in DitherFns /\ call.resolution = One /\ call.intensity = Zero
     /\ call.clean) =>
    data = Reduced(call.before, call.palette)

\* C16 happens: an error-diffusion call at intensity 0 on a 3 x 2 buffer with
\* a pixel that is no palette entry, so that a residual was diffused.
C16_Witness ==
  /\ call.fn \in DitherFns \ {"bayer"}
  /\ call.resolution = One
  /\ call.intensity = Zero
  /\ call.clean
  /\ width = 3
  /\ \E p \in Pixels : ~IsPaletteEntry(PixelRGB(call.before, p), call.palette)
  /\ data = Reduced(call.before, call.palette)
  /\ data # call.before

\* The state a library call on the buffer d starts in when the cache is empty.
Fresh(d) == [data |-> d, buf |-> <<>>, cache |-> <<>>, log |-> <<>>, trace |-> <<>>,
   ev |-> <<>>]

\* The buffer apply<type>Dithering(d, w, h, palette, intensity, resolution)
\* leaves in d.
Dithered(type, d, w, h, palette, intensity, resolution) ==
  CASE type = "bayer" ->
         applyBayerDithering(Fresh(d), w, h, palette, intensity, resolution).data
    [] type = "floydSteinberg" ->
         applyFloydSteinbergDithering(Fresh(d), w, h, palette, intensity,
                                      resolution).data
    [] type = "jjn" ->
         applyJJNDithering(Fresh(d), w, h, palette, intensity, resolution).data
    [] type = "stucki" ->
         applyStuckiDithering(Fresh(d), w, h, palette, intensity, resolution).data
    [] type = "sierra" ->
         applySierraDithering(Fresh(d), w, h, palette, intensity, resolution).data

C18_DelegatesOnceAtResolutionOne ==
  call.fn \in DitherFns =>
    /\ call.trace[1].fn = call.fn
    /\ call.trace[1].resolution = call.resolution
    /\ IF LessThanOne(call.resolution)
       THEN /\ Len(call.trace) = 2
            /\ call.trace[2].fn = call.fn
            /\ call.trace[2].resolution = One
            /\ call.trace[2].width = ScaledDim(width, call.resolution)
            /\ call.trace[2].height = ScaledDim(height, call.resolution)
       ELSE Len(call.trace) = 1

\* C18 happens: a call with resolution 0.5 on a 3 x 2 buffer has returned,
\* having gone through the scaler.
C18_Witness ==
  /\ call.fn \in DitherFns
  /\ call.resolution = <<1, 2>>
  /\ width = 3
  /\ Len(call.trace) = 2
  /\ call.trace[2].width = 2
  /\ call.trace[2].resolution = One

\* C19: in a call through the scaled path, the algorithm is run on the
\* downsampled buffer with intensity 1.0.
C19_ScaledPathAtFullIntensity ==
  (call.fn \in DitherFns /\ LessThanOne(call.resolution)) =>
    \A k \in 2..Len(call.trace) : call.trace[k].intensity = One

\* C20: in every run, with x = loopDuration * exportLoopCount * exportFps,
\* targetFrameCount is x rounded to the nearest integer (halves upwards),
\* exactDurationMs is targetFrameCount / exportFps * 1000, stopDurationMs is
\* exactDurationMs less a tenth of 1000 / exportFps (both sides multiplied
\* by exportFps: stopDurationMs * exportFps = targetFrameCount * 1000 - 100),
\* and stopDurationMs lies
\* strictly between the time of frame targetFrameCount - 1 and
\* exactDurationMs; for 2 s at 30 fps and 1 loop there are 60 frames and
\* stopDurationMs is below 2000.
C20_TimingArithmetic ==
  \A r \in 1..Len(runs) :
    LET run == runs[r]
        fps == run.settings.exportFps
        x == <<run.settings.loopDuration[1] * run.settings.exportLoopCount * fps,
               run.settings.loopDuration[2]>>
        n == run.targetFrameCount
        exact == run.exactDurationMs
        stop == run.stopDurationMs
    IN  /\ exact[2] > 0 /\ stop[2] > 0
        /\ (2 * n - 1) * x[2] <= 2 * x[1]
        /\ 2 * x[1] < (2 * n + 1) * x[2]
        /\ exact[1] * fps = n * 1000 * exact[2]
        /\ stop[1] * fps = (n * 1000 - 100) * stop[2]
        /\ stop[1] * exact[2] < exact[1] * stop[2]
        /\ (n - 1) * 1000 * stop[2] < stop[1] * fps
        /\ (run.settings.loopDuration = <<2, 1>> /\ fps = 30
              /\ run.settings.exportLoopCount = 1) =>
             n = 60 /\ stop[1] < 2000 * stop[2]

\* C20 happens: runs have started for 2 s at 30 fps and 1 loop, and for a
\* product with a fraction of one half (2.5 s at 25 fps, 62.5 frames).
C20_Witness ==
  \E r \in 1..Len(runs) :
    \/ /\ runs[r].settings.loopDuration = <<2, 1>>
       /\ runs[r].settings.exportFps = 30
       /\ runs[r].settings.exportLoopCount = 1
       /\ runs[r].targetFrameCount = 60
       /\ runs[r].exactDurationMs = <<60000, 30>>
    \/ /\ runs[r].settings.loopDuration = <<5, 2>>
       /\ runs[r].settings.exportFps = 25
       /\ runs[r].settings.exportLoopCount = 1
       /\ runs[r].targetFrameCount = 63

\* a + b for fractions.
AddFrac(a, b) == Frac(a[1] * b[2] + b[1] * a[2], a[2] * b[2])

\* C21: in every run the crop rectangle lies inside the canvas, has the
\* export aspect ratio, is centred on the canvas, and keeps the whole canvas
\* width when the export is wider than the canvas and the whole canvas height
\* otherwise; for a 1920 x 1080 canvas and a 1080 x 1080 export it is
\* cropX = 420, cropY = 0, cropWidth = 1080.
C21_CropInsideCentred ==
  \A r \in 1..Len(runs) :
    LET run == runs[r]
        c == run.crop
        sw == <<run.canvas[1], 1>>
        sh == <<run.canvas[2], 1>>
        ew == run.settings.exportWidth
        eh == run.settings.exportHeight
    IN  /\ LeqFrac(Zero, c.cropX) /\ LeqFrac(Zero, c.cropY)
        /\ LeqFrac(Zero, c.cropWidth) /\ LeqFrac(Zero, c.cropHeight)
        /\ LeqFrac(AddFrac(c.cropX, c.cropWidth), sw)
        /\ LeqFrac(AddFrac(c.cropY, c.cropHeight), sh)
        /\ c.cropWidth[1] * c.cropHeight[2] * eh = c.cropHeight[1] * c.cropWidth[2] * ew
        /\ AddFrac(AddFrac(c.cropX, c.cropX), c.cropWidth) = Frac(sw[1], 1)
        /\ AddFrac(AddFrac(c.cropY, c.cropY), c.cropHeight) = Frac(sh[1], 1)
        /\ IF ew * run.canvas[2] > run.canvas[1] * eh
           THEN c.cropWidth = Frac(sw[1], 1)
           ELSE c.cropHeight = Frac(sh[1], 1)
        /\ (run.canvas = <<1920, 1080>> /\ ew = 1080 /\ eh = 1080) =>
             /\ c.cropX = <<420, 1>>
             /\ c.cropY = <<0, 1>>
             /\ c.cropWidth = <<1080, 1>>

\* C21 happens: a run has started on the 1920 x 1080 canvas with a 1080 x
\* 1080 export, or with an export wider than its canvas whose crop height is
\* no whole number.
C21_Witness ==
  \E r \in 1..Len(runs) :
    \/ /\ runs[r].canvas = <<1920, 1080>>
       /\ runs[r].settings.exportWidth = 1080
       /\ runs[r].settings.exportHeight = 1080
       /\ runs[r].crop.cropX = <<420, 1>>
    \/ /\ runs[r].canvas = <<2, 5>>
       /\ runs[r].settings.exportWidth = 16
       /\ runs[r].crop.cropHeight = <<9, 8>>
       /\ runs[r].crop.cropY = <<31, 16>>

\* C22: the bitrate of a run that got as far as computing it is pixelCount *
\* fps * multiplier, rounded, clamped to [500000, 80000000]; it lies in that
\* range, and a better quality at the same size and frame rate gives no
\* lower bitrate.
C22_BitrateClampedMonotone ==
  \A r \in 1..Len(runs) :
    LET run == runs[r]
        w == run.settings.exportWidth
        h == run.settings.exportHeight
        fps == run.settings.exportFps
        q == run.settings.exportQuality
        v == run.videoBitsPerSecond
        \* twice the unrounded product, for the three qualities
        twice == CASE q = "good" -> <<6 * w * h * fps, 5>>
                   [] q = "excellent" -> <<3 * w * h * fps, 1>>
                   [] q = "maximum" -> <<6 * w * h * fps, 1>>
        \* v is the product rounded to the nearest integer, halves upwards
        IsRounded(n) == /\ (2 * n - 1) * twice[2] <= twice[1]
                        /\ twice[1] < (2 * n + 1) * twice[2]
    IN  IsVideo(run) =>
          /\ 500000 <= v /\ v <= 80000000
          /\ \/ IsRounded(v)
             \/ v = 500000 /\ twice[1] < 2 * 500000 * twice[2]
             \/ v = 80000000 /\ twice[1] > 2 * 80000000 * twice[2]
          /\ calculateBitrate(w, h, "good", fps) <= calculateBitrate(w, h, "excellent", fps)
          /\ calculateBitrate(w, h, "excellent", fps) <= calculateBitrate(w, h, "maximum", fps)
          /\ q = "good" => v <= calculateBitrate(w, h, "excellent", fps)
          /\ q = "excellent" => v <= calculateBitrate(w, h, "maximum", fps)

\* C22 happens: a run has started whose bitrate, 1280 * 720 * 30 * 1.5, lies
\* strictly between the two bounds.
C22_Witness ==
  \E r \in 1..Len(runs) :
    /\ IsVideo(runs[r])
    /\ runs[r].settings.exportWidth = 1280
    /\ runs[r].settings.exportQuality = "excellent"
    /\ runs[r].settings.exportFps = 30
    /\ runs[r].videoBitsPerSecond = 41472000

\* The colour of pixel p of the buffer d.
RGBOf(d, p) == <<d[p * 4], d[p * 4 + 1], d[p * 4 + 2]>>

\* Every colour byte of d is v.
Uniform(d, v) == \A i \in DOMAIN d : i % 4 = 3 \/ d[i] = v

\* The last call was the error-diffusion function fn at full resolution.
DiffusedBy(fn) == call.fn = fn /\ call.resolution = One

\* C23: Floyd-Steinberg with intensity 1 and resolution 1 on a uniform buffer
\* of value 127 with the palette {black, white} gives a buffer in which every
\* pixel is black or white, any two pixels next to each other in a row or in
\* a column have different colours, and the numbers of black and of white
\* pixels differ by at most one.
C23_FlatGreyAlternates ==
  (DiffusedBy("floydSteinberg") /\ call.palette = PalA /\ call.intensity = One
     /\ Uniform(call.before, 127))
  => LET n == width * height
         black == {p \in 0..(n - 1) : RGBOf(data, p) = <<0, 0, 0>>}
         white == {p \in 0..(n - 1) : RGBOf(data, p) = <<255, 255, 255>>}
     IN  /\ black \cup white = 0..(n - 1)
         /\ \A p \in 0..(n - 1) :
              /\ (p % width) + 1 < width => RGBOf(data, p) # RGBOf(data, p + 1)
              /\ p + width < n => RGBOf(data, p) # RGBOf(data, p + width)
         /\ Cardinality(black) - Cardinality(white) \in {-1, 0, 1}

\* The call of C23 was made on the 6 x 3 buffer, and the result holds nine
\* black and nine white pixels.
C23_Witness ==
  /\ DiffusedBy("floydSteinberg") /\ call.palette = PalA /\ call.intensity = One
  /\ Uniform(call.before, 127)
  /\ width = 6 /\ height = 3
  /\ Cardinality({p \in 0..17 : RGBOf(data, p) = <<0, 0, 0>>}) = 9
  /\ Cardinality({p \in 0..17 : RGBOf(data, p) = <<255, 255, 255>>}) = 9

\* The byte index a recorded write starts at.
WriteAt(wr) == wr.row + wr.slot * 3

\* The writes of error that is not zero into the slot of a pixel: the slots
\* pad .. pad + width - 1 of a row of the buffer.
RealWrites(e, pad) ==
  {i \in 1..Len(e.writes) :
     /\ e.writes[i].nz
     /\ pad <= e.writes[i].slot
     /\ e.writes[i].slot < pad + width}

\* C24: in a call of the JJN function, error written into the slot of a pixel
\* stays in the buffer until that slot has been read for its pixel: whenever a
\* clearing loop covers a slot written before, the slot was read between the
\* write and the clearing.
C24_ErrorKeptUntilConsumed ==
  DiffusedBy("jjn")
  => \A i \in 1..Len(call.ev) : \A j \in (i + 1)..Len(call.ev) :
       (call.ev[i].k = "pixel" /\ call.ev[j].k = "clear")
       => \A n \in RealWrites(call.ev[i], 3) :
            LET at == WriteAt(call.ev[i].writes[n])
            IN  (call.ev[j].from <= at /\ at < call.ev[j].to)
                => \E r \in (i + 1)..(j - 1) :
                     call.ev[r].k = "pixel" /\ call.ev[r].errIdx = at

\* The last call was one of the four error-diffusion functions at full
\* resolution.
Diffused ==
  call.fn \in {"floydSteinberg", "jjn", "stucki", "sierra"} /\ call.resolution = One

\* The column and the row of the pixel a recorded event belongs to.
ColumnOf(e) == (e.idx \div 4) % width
RowOf(e) == (e.idx \div 4) \div width

\* A pixel at least two columns from the left edge, four from the right edge
\* and three rows from the bottom: none of the tests on x and y that guard a
\* diffusion target fails for it in any of the four functions.
Interior(e) ==
  /\ e.k = "pixel"
  /\ 2 <= ColumnOf(e) /\ ColumnOf(e) < width - 3
  /\ RowOf(e) < height - 2

RECURSIVE WeightSum(_)
\* The sum of the weights of a sequence of recorded writes.
WeightSum(writes) ==
  IF writes = <<>> THEN 0 ELSE Head(writes).w + WeightSum(Tail(writes))

\* C25: in each of the four error-diffusion functions the weights of the
\* diffusion targets of an interior pixel sum to the divisor the residual was
\* divided by.
C25_WeightsSumToDivisor ==
  Diffused
  => \A i \in 1..Len(call.ev) :
       Interior(call.ev[i]) => WeightSum(call.ev[i].writes) = call.ev[i].divisor

\* The number of padding slots on each side of a row of the error buffer:
\* a row has width + 2 * Pad(fn) slots.
Pad(fn) == CASE fn = "floydSteinberg" -> 1 [] fn = "jjn" -> 3 [] OTHER -> 2

\* The first byte of the buffer row the byte index at lies in.
RowStartOf(at, fn) ==
  (at \div ((width + 2 * Pad(fn)) * 3)) * ((width + 2 * Pad(fn)) * 3)

\* The slot of its row a pixel read its error from.
SlotOf(e, fn) == (e.errIdx - RowStartOf(e.errIdx, fn)) \div 3

\* The recorded writes of a pixel into rows other than its own.
WritesBelow(e, fn) ==
  {i \in 1..Len(e.writes) : e.writes[i].row # RowStartOf(e.errIdx, fn)}

BufferRows(fn) == IF fn = "jjn" THEN 3 ELSE 2

\* The number of image rows between a pixel and the row a write of it is
\* meant for: 0 for the pixel's own buffer row, 1 for the next one in the
\* rotation, 2 for the one after it.
RowsAhead(e, wr, fn) ==
  LET rowBytes == (width + 2 * Pad(fn)) * 3
  IN  ((wr.row \div rowBytes) + BufferRows(fn) - (e.errIdx \div rowBytes))
        % BufferRows(fn)

\* The slot written by wr is read by the pixel event at position r of ev and
\* was not cleared between the event at position i and that read.
ReadsWrite(ev, i, r, wr) ==
  /\ ev[r].k = "pixel"
  /\ ev[r].errIdx = WriteAt(wr)
  /\ \A c \in (i + 1)..(r - 1) :
       ev[c].k = "clear" => ~(ev[c].from <= WriteAt(wr) /\ WriteAt(wr) < ev[c].to)

\* C27: in a call of any of the four error-diffusion functions, on a buffer
\* of any width and height, (1) every write starts at a row of the buffer and
\* at a slot of that row, inside the buffer; (2) a write into the pixel's own
\* row goes to a slot right of the pixel; (3) a pixel reads its error from a
\* slot of the pixel columns, never from padding; (4) error that is read
\* again is read by a pixel of the row it was written for, so nothing written
\* at the end of one scanline reaches the start of the next.
C27_WritesStayInRow ==
  Diffused
  => LET ev == call.ev
         rowSlots == width + 2 * Pad(call.fn)
     IN  \A i \in 2..Len(ev) :
           ev[i].k = "pixel"
           => /\ Pad(call.fn) <= SlotOf(ev[i], call.fn)
              /\ SlotOf(ev[i], call.fn) < Pad(call.fn) + width
              /\ ColumnOf(ev[i]) = SlotOf(ev[i], call.fn) - Pad(call.fn)
              /\ \A n \in 1..Len(ev[i].writes) :
                   LET wr == ev[i].writes[n]
                   IN  /\ wr.row \in {b * rowSlots * 3 : b \in 0..(BufferRows(call.fn) - 1)}
                       /\ 0 <= wr.slot /\ wr.slot < rowSlots
                       /\ WriteAt(wr) + 2 < ev[1].n
                       /\ RowsAhead(ev[i], wr, call.fn) = 0
                            => wr.slot > SlotOf(ev[i], call.fn)
                       /\ \A r \in (i + 1)..Len(ev) :
                            ReadsWrite(ev, i, r, wr)
                            => RowOf(ev[r]) = RowOf(ev[i]) + RowsAhead(ev[i], wr, call.fn)

\* A call on the buffer one pixel wide wrote into a padding slot, and a call
\* on the 6 x 3 buffer wrote error that a pixel of the next row read.
C27_Witness ==
  /\ Diffused
  /\ \E i \in 2..Len(call.ev) :
       /\ call.ev[i].k = "pixel"
       /\ \E n \in 1..Len(call.ev[i].writes) :
            \/ /\ width = 1
               /\ call.ev[i].writes[n].slot < Pad(call.fn)
            \/ /\ width = 6
               /\ \E r \in (i + 1)..Len(call.ev) :
                    /\ ReadsWrite(call.ev, i, r, call.ev[i].writes[n])
                    /\ RowOf(call.ev[r]) = RowOf(call.ev[i]) + 1

\* The last call took the scaled path: one of the five dithering functions
\* called with a resolution below 1.
Scaled ==
  /\ call.fn \in {"bayer", "floydSteinberg", "jjn", "stucki", "sierra"}
  /\ LessThanOne(call.resolution)

\* The cells of one axis that source position p was averaged into: the cells
\* c with c0 <= p < c1 in the downscaling loops.
CellsOf(p, dimension, scaledDimension) ==
  {c \in 0..(scaledDimension - 1) :
     /\ CellStart(c, dimension, scaledDimension) <= p
     /\ p < CellStart(c + 1, dimension, scaledDimension)}

\* C28: in the scaled path the dimensions of the scaled buffer (those the
\* nested call is entered with) do not exceed the dimensions of the buffer,
\* every cell of the scaled buffer averages at least one source pixel, and
\* every source pixel is averaged into exactly one cell.
C28_DownscaleCoversSource ==
  Scaled
  => LET scaledWidth == call.trace[2].width
         scaledHeight == call.trace[2].height
     IN  /\ scaledWidth <= width
         /\ scaledHeight <= height
         /\ \A x \in 0..(scaledWidth - 1), y \in 0..(scaledHeight - 1) :
              CountCell(CellStart(x, width, scaledWidth),
                        CellStart(x + 1, width, scaledWidth),
                        CellStart(y, height, scaledHeight),
                        CellStart(y + 1, height, scaledHeight)) >= 1
         /\ \A px \in 0..(width - 1) :
              Cardinality(CellsOf(px, width, scaledWidth)) = 1
         /\ \A py \in 0..(height - 1) :
              Cardinality(CellsOf(py, height, scaledHeight)) = 1

\* C29: in the scaled path the cell the upscaling loop reads for a pixel lies
\* inside the scaled buffer and is the cell the pixel was averaged into by
\* the downscaling loops.
C29_UpscaleReadsOwnCell ==
  Scaled
  => LET scaledWidth == call.trace[2].width
         scaledHeight == call.trace[2].height
     IN  \A x \in 0..(width - 1), y \in 0..(height - 1) :
           LET srcX == SourceCell(x, width, scaledWidth)
               srcY == SourceCell(y, height, scaledHeight)
           IN  /\ srcX \in 0..(scaledWidth - 1)
               /\ srcY \in 0..(scaledHeight - 1)
               /\ srcX \in CellsOf(x, width, scaledWidth)
               /\ srcY \in CellsOf(y, height, scaledHeight)

\* C30: in an export with dithering enabled and without the ASCII rendering,
\* every frame processed was handed to the dithering function named by
\* settings.ditheringType.
C30_EffectIsDitheringType ==
  \A r \in 1..Len(runs) :
    (runs[r].settings.ditheringEnabled /\ ~runs[r].settings.asciiEnabled)
    => \A k \in 1..Len(runs[r].effects) :
         runs[r].effects[k] = runs[r].settings.ditheringType

\* Every pixel of the buffer d is an entry of palette.
AllPaletteEntries(d, palette) ==
  \A p \in Pixels : IsPaletteEntry(PixelRGB(d, p), palette)

\* C31: after reduceColorsTopalette, applying it again with the same palette
\* gives the same buffer; and a call of any of the four error-diffusion
\* functions at resolution 1.0, at any intensity, on a buffer whose pixels are
\* all entries of the palette leaves the buffer as it was.  The calls start
\* with no cache entry of another palette.
C31_QuantizationIdempotent ==
  /\ call.fn = "reduce" => Reduced(data, call.palette) = data
  /\ (Diffused /\ call.clean /\ AllPaletteEntries(call.before, call.palette))
     => data = call.before

\* An error-diffusion call at intensity 1 left the 3 x 2 buffer of black and
\* white pixels as it was.
C31_Witness ==
  /\ Diffused /\ call.clean /\ call.intensity = One
  /\ width = 3
  /\ AllPaletteEntries(call.before, call.palette)
  /\ PixelRGB(call.before, 0) # PixelRGB(call.before, 1)
  /\ data = call.before

\* C32: the capture loop performs a cycle for frame index 0: no tick that
\* computes the index 0 before any index was captured returns without
\* capturing.
C32_FrameZeroCaptured ==
  \A r \in 1..Len(runs) :
    runs[r].settings.exportFormat # "gif" => ~runs[r].zeroSkipped

\* C33: isExporting stays true from the start of an export run until its
\* output is finalized: while a run is not over (its file is not delivered,
\* it is not cancelled and it has not failed), isExporting is true; in
\* particular while the GIF encoder is encoding.
C33_ExportingUntilFinalized ==
  \A r \in 1..Len(runs) : runs[r].pc # "done" => isExporting

(***************************************************************************)
(* SpecReentry: exportVideo called more than once, with a recording of one  *)
(* frame of 8 ms.                                                           *)
(***************************************************************************)
\* Number of calls of exportVideo that get past its guard in a behaviour of
\* SpecReentry.
MaxReentrantRuns == 2

ReentrySettings ==
  {[BaseSettings EXCEPT !.exportFps = 125, !.loopDuration = <<8, 1000>>]}

NextReentry ==
  \/ ExportVideoWith({ExportCanvas}, ReentrySettings, MaxReentrantRuns)
  \/ Render
  \/ CancelExport
  \/ \E r \in 1..Len(runs) : CaptureTick(r)
  \/ \E r \in 1..Len(runs) : ProgressTick(r)
  \/ \E r \in 1..Len(runs) : OnStop(r)
  \/ AdvanceClock

SpecReentry == InitExport /\ [][NextReentry]_vars

\* The runs that are not over.
InProgress == {r \in 1..Len(runs) : runs[r].pc # "done"}

\* C34: at most one export run is in progress at any time.
C34_OneRunAtATime == Cardinality(InProgress) <= 1

(***************************************************************************)
(* SpecExportFair: the exports of SpecExport when the timers keep firing,   *)
(* time passes, and the recorder and the GIF encoder report that they have  *)
(* stopped or finished.  Nothing is assumed of the user: neither a render   *)
(* nor a cancellation has to happen.                                        *)
(***************************************************************************)
ExportFairness ==
  /\ WF_vars(AdvanceClock)
  /\ \A r \in 1..MaxRuns :
       /\ WF_vars(r <= Len(runs) /\ GifTimeout(r))
       /\ WF_vars(r <= Len(runs) /\ GifFinished(r))
       /\ WF_vars(r <= Len(runs) /\ CaptureTick(r))
       /\ WF_vars(r <= Len(runs) /\ ProgressTick(r))
       /\ WF_vars(r <= Len(runs) /\ OnStop(r))

SpecExportFair == InitExport /\ [][NextExport]_vars /\ ExportFairness

\* The run's stop time lies within the readings of the clock: a GIF run (it
\* reads no clock), a run that is over, or a recording started early enough.
InTime(run) ==
  \/ run.settings.exportFormat = "gif"
  \/ run.pc = "done"
  \/ LET stop == StopDurationMs(run.settings)
     IN  (run.startTime * stop[2]) + stop[1] <= MaxTime * stop[2]

\* The run is over and isExporting is false.
Ended(r) == r <= Len(runs) /\ runs[r].pc = "done" /\ ~isExporting

\* C35: every export run that has started eventually ends with isExporting
\* false, whether it completes, is cancelled or fails, when the timers keep
\* firing and the recorder or the GIF encoder eventually reports.
C35_EveryRunEnds ==
  \A r \in 1..MaxRuns : (r <= Len(runs) /\ InTime(runs[r])) ~> Ended(r)

\* A recording that was not cancelled has run to its stop time and ended
\* with its file delivered.
C35_Witness ==
  /\ Len(runs) >= 1
  /\ runs[1].recorder = "inactive"
  /\ runs[1].downloads = 1
  /\ ~abortRef
  /\ ~isExporting

====
